---------------------------- MODULE Spec2Model ----------------------------
(***************************************************************************)
(* Memex: tiered retrieval and caching engine.                             *)
(*                                                                         *)
(* One module, several specifications, one per component:                  *)
(*   SpecCache     PersistentCache (SQLite table `cache`)                  *)
(*   SpecCacheCorrupt    PersistentCache with undecodable rows             *)
(*   SpecCacheCleanup    PersistentCache construction and cleanup()        *)
(*   SpecCacheCrash      PersistentCache calls cut short by a crash        *)
(*   SpecManifest  ManifestManager (.memex-manifest.json)                  *)
(*   SpecManifestFaults  generate()/save() with failing reads and writes   *)
(*   SpecIndexUpdate     ManifestManager.needsIndexUpdate                  *)
(*   SpecManifestCli     manifest-manager generate / check                 *)
(*   SpecBloom     BloomFilter (.cache/bloom-filter.json)                  *)
(*   SpecBloomRoundTrip  BloomFilter.fromJSON(filter.toJSON())             *)
(*   SpecBloomFiles  BloomFilter beside a file of another geometry       *)
(*   SpecSessions  Recuerda.saveSession, LazyLoader, buildMemexBloomFilter *)
(*   SpecLoader    Memex.loadIndex over index.msgpack / .json.gz / .json   *)
(*   SpecLoaderFaults    Memex beside an unreachable cache database        *)
(*   SpecSearch    Memex.search beside the persisted bloom filter          *)
(*   SpecDetails   LazyLoader.loadSessionDetails over {id}.msgpack / .json *)
(*   SpecMigrate   MessagePackMigration beside the JSON writers            *)
(*   SpecHot       Memex.loadContent / loadProjectMetadata hot cache       *)
(*   SpecProHot    MemexPro hot cache (addToHotCache)                      *)
(*   SpecPro       MemexPro.loadIndex over index.json.gz / index.json      *)
(*   SpecProSearch MemexPro.search                                         *)
(*                                                                         *)
(* Every specification shares the variables below; a component's actions   *)
(* leave the other components' variables unchanged.                        *)
(***************************************************************************)
EXTENDS Integers, Sequences, FiniteSets, TLC

VARIABLES
  now,        \* Date.now(), in milliseconds
  inst,       \* the PersistentCache instance: [ttl, version, maxEntries]
  table,      \* the rows of table `cache`: key -> row
  cacheLast,  \* the last PersistentCache call: what was called and what it returned
  readRows,   \* history: the keys whose row get() has returned since it was inserted
  disk,         \* the tracked files under MEMEX_PATH: path -> [content, mtime]
  manifestFile, \* .memex-manifest.json: NoFile or its text
  mgrManifest,  \* ManifestManager.manifest: null or a manifest
  mgrLast,      \* what the last detectChanges()/getChangedFiles() returned
  filter,      \* a BloomFilter object in memory, or null
  bloomFile,   \* .cache/bloom-filter.json: NoFile or its text
  bloomAdded,  \* history: the items add() was called with on `filter`
  bloomSaved,  \* history: the items added to the filter that bloomFile holds
  bloomLast,   \* the last BloomFilter call and what it returned
  sessionsIndex, \* summaries/projects/Memex/sessions-index.json
  detailFiles,   \* summaries/projects/Memex/sessions/{id}.json: id -> file
  sessLast,      \* the last operation on the session files
  detailPacks,   \* summaries/projects/Memex/sessions/{id}.msgpack: id -> file
  detailLast,    \* what the last loadSessionDetails() did and returned
  indexFiles,  \* index.msgpack, index.json.gz, index.json: format -> file
  memexIndex,  \* Memex.index of the loader object, if there is one
  loadLast,    \* what the last loadIndex() did and returned
  searchLast,  \* what the last search() read and returned
  proIndex,    \* MemexPro.index of the v3 loader object, if there is one
  proLast,     \* what the last MemexPro.loadIndex() did and returned
  proSearch,   \* what the last MemexPro.search() returned
  sessionsPack, \* summaries/projects/Memex/sessions-index.msgpack
  migrateLast,  \* what the last run of the migration tool did
  hot,         \* Memex.cache.hot: its keys, in the Map's insertion order
  hotLast,     \* the last Memex call on the hot cache
  proHot,      \* MemexPro.cache.hot: its keys, in the Map's insertion order
  proHotUsed,  \* history: the keys of proHot, least recently inserted or hit first
  proHotLast   \* the last MemexPro call on the hot cache

cacheVars == <<now, inst, table, cacheLast, readRows>>
manifestVars == <<disk, manifestFile, mgrManifest, mgrLast>>
bloomVars == <<filter, bloomFile, bloomAdded, bloomSaved, bloomLast>>
sessionVars == <<sessionsIndex, detailFiles, sessLast>>
detailVars == <<detailPacks, detailLast>>
proVars == <<proIndex, proLast, proSearch>>
migrateVars == <<sessionsPack, migrateLast>>
hotVars == <<hot, hotLast>>
proHotVars == <<proHot, proHotUsed, proHotLast>>
loaderVars == <<indexFiles, memexIndex, loadLast, searchLast>>

vars == <<cacheVars, manifestVars, bloomVars, sessionVars, loaderVars, detailVars, proVars, migrateVars, hotVars, proHotVars>>

\* What each component leaves alone.
exceptCache == <<manifestVars, bloomVars, sessionVars, loaderVars, detailVars, proVars, migrateVars, hotVars, proHotVars>>
exceptManifest == <<cacheVars, bloomVars, sessionVars, loaderVars, detailVars, proVars, migrateVars, hotVars, proHotVars>>
exceptBloom == <<cacheVars, manifestVars, sessionVars, loaderVars, detailVars, proVars, migrateVars, hotVars, proHotVars>>
exceptSessions == <<cacheVars, manifestVars, bloomVars, loaderVars, detailVars, proVars, migrateVars, hotVars, proHotVars>>

-----------------------------------------------------------------------------
(* Bounds of the model *)

\* The clock is not advanced past MaxTime.
MaxTime == 2

\* add() is not called on a filter that holds MaxItemCount items.
MaxItemCount == 3

\* saveSession() is not called on an index that holds MaxSessions sessions.
MaxSessions == 2

(* Program constants *)

DEFAULT_TTL == 3600000
DEFAULT_MAX_ENTRIES == 1000
HOT_CACHE_LIMIT == 10
PRO_HOT_CACHE_LIMIT == 10

-----------------------------------------------------------------------------
(* Inputs *)

Keys == {"k1", "k2", "k3"}
Values == {"v1"}
Versions == {"3.1.0", "test-lru"}

\* An optional numeric argument: <<>> when it is not given (undefined/null),
\* <<n>> when it is n.
Null == <<>>
TtlArgs == {Null, <<0>>, <<1>>}
MaxEntriesArgs == {<<1>>, <<2>>}
TtlOptions == {Null}
VersionOptions == {<<>>, <<"test-lru">>}

\* JavaScript's `a || b` on an optional number: null, undefined and 0 are falsy.
OrElse(opt, dflt) == IF opt = <<>> THEN dflt ELSE IF opt[1] = 0 THEN dflt ELSE opt[1]

\* `a || b` on an optional string.
OrElseStr(opt, dflt) == IF opt = <<>> THEN dflt ELSE opt[1]

-----------------------------------------------------------------------------
(* msgpack-lite, as the cache uses it *)

\* msgpack.encode(value): the stored BLOB.
MsgpackEncode(v) == [fmt |-> "msgpack", payload |-> v]

\* A BLOB that msgpack.decode rejects.
Garbage == [fmt |-> "garbage", payload |-> "?"]

\* msgpack.decode(buffer) throws on a BLOB it cannot decode.
MsgpackDecodes(b) == b.fmt = "msgpack"
MsgpackDecode(b) == b.payload

-----------------------------------------------------------------------------
(* PersistentCache *)

\* What a call did: its name and key, the return path it took, what it returned
\* and the keys its LRU eviction deleted.
Called(op, key, path, result, evicted) ==
  [op |-> op, key |-> key, path |-> path, result |-> result, evicted |-> evicted]

NoResult == [kind |-> "none"]
Miss == [kind |-> "null"]
Hit(v) == [kind |-> "value", value |-> v]

\* DELETE FROM cache WHERE key = ?
DeleteAllRows(t, key) == [k \in {} |-> t[k]]

DeleteRow(t, key) == [k \in (DOMAIN t) \ {key} |-> t[k]]

\* DELETE FROM cache WHERE expires_at < ?
CleanupRowsLate(t, at) == [k \in {j \in DOMAIN t : ~(t[j].expires_at + 1 < at)} |-> t[k]]

CleanupRows(t, at) == [k \in {j \in DOMAIN t : ~(t[j].expires_at < at)} |-> t[k]]

\* The rows `SELECT key FROM cache ORDER BY last_accessed_at ASC LIMIT 1` may
\* return: SQL leaves the order among equal last_accessed_at open.
LruCandidatesNewest(t) ==
  {k \in DOMAIN t : \A j \in DOMAIN t : t[k].last_accessed_at >= t[j].last_accessed_at}

LruCandidates(t) ==
  {k \in DOMAIN t : \A j \in DOMAIN t : t[k].last_accessed_at <= t[j].last_accessed_at}

\* get(): the expiration check, `row.expires_at < now`.
ExpiredLate(row, at) == row.expires_at + 1 < at

Expired(row, at) == row.expires_at < at

\* get(): the version check, `row.version !== this.version`.
VersionMismatchNever(row, version) == FALSE

VersionMismatch(row, version) == row.version # version

\* set(): `existing ? existing.last_accessed_at : now`
LastAccessedOnSetNow(t, key, at) == at

LastAccessedOnSet(t, key, at) ==
  IF key \in DOMAIN t THEN t[key].last_accessed_at ELSE at

\* new PersistentCache(options): the constructor and initializeDatabase(),
\* which ends with cleanup(). The database file outlives the instance.
Construct(versionOpt, ttlOpt, maxOpt) ==
  [ttl |-> OrElse(ttlOpt, DEFAULT_TTL),
   version |-> OrElseStr(versionOpt, "3.1.0"),
   maxEntries |-> OrElse(maxOpt, DEFAULT_MAX_ENTRIES)]

CacheOpen(versionOpt, ttlOpt, maxOpt) ==
  /\ inst' = Construct(versionOpt, ttlOpt, maxOpt)
  /\ table' = CleanupRows(table, now)
  /\ cacheLast' = Called("open", "", "", NoResult, {})
  /\ readRows' = readRows \cap DOMAIN table'
  /\ UNCHANGED now
  /\ UNCHANGED exceptCache

\* get(key) on table t: the table it leaves, the return path and the result.
GetOutcome(t, key, version, at) ==
  IF key \notin DOMAIN t
    THEN [table |-> t, path |-> "absent", result |-> Miss]
  ELSE IF Expired(t[key], at)
    THEN [table |-> DeleteRow(t, key), path |-> "expired", result |-> Miss]
  ELSE IF VersionMismatch(t[key], version)
    THEN [table |-> DeleteRow(t, key), path |-> "version", result |-> Miss]
  ELSE IF ~MsgpackDecodes(t[key].value)
    THEN [table |-> DeleteRow(t, key), path |-> "decode", result |-> Miss]
  ELSE [table |-> [t EXCEPT ![key].last_accessed_at = at],
        path |-> "hit",
        result |-> Hit(MsgpackDecode(t[key].value))]

\* get(key)
CacheGet(key) ==
  /\ LET g == GetOutcome(table, key, inst.version, now)
     IN /\ table' = g.table
        /\ cacheLast' = Called("get", key, g.path, g.result, {})
        /\ readRows' = (IF g.path = "hit" THEN readRows \cup {key} ELSE readRows)
                          \cap DOMAIN g.table
  /\ UNCHANGED <<now, inst>>
  /\ UNCHANGED exceptCache

\* The row set() writes with INSERT OR REPLACE.
NewRow(t, key, value, customTTL) ==
  [value |-> MsgpackEncode(value),
   version |-> inst.version,
   expires_at |-> now + OrElse(customTTL, inst.ttl),
   created_at |-> now,
   updated_at |-> now,
   last_accessed_at |-> LastAccessedOnSet(t, key, now)]

\* INSERT OR REPLACE INTO cache
Upsert(t, key, row) == [k \in (DOMAIN t) \cup {key} |-> IF k = key THEN row ELSE t[k]]

\* set(key, value, customTTL) on table t: the tables it may leave, each with
\* the keys the LRU eviction deleted.
SetOutcomes(t, key, value, customTTL) ==
  IF key \notin DOMAIN t /\ Cardinality(DOMAIN t) >= inst.maxEntries /\ DOMAIN t # {}
    THEN {[table |-> Upsert(DeleteRow(t, victim), key, NewRow(t, key, value, customTTL)),
           evicted |-> {victim}] : victim \in LruCandidates(t)}
    ELSE \* no eviction, or the DELETE finds no row
         {[table |-> Upsert(t, key, NewRow(t, key, value, customTTL)), evicted |-> {}]}

\* set(key, value, customTTL = null)
CacheSet(key, value, customTTL) ==
  /\ \E o \in SetOutcomes(table, key, value, customTTL) :
       /\ table' = o.table
       /\ cacheLast' = Called("set", key, "", NoResult, o.evicted)
  /\ readRows' = readRows \cap DOMAIN table'
  /\ UNCHANGED <<now, inst>>
  /\ UNCHANGED exceptCache

\* delete(key)
CacheDelete(key) ==
  /\ table' = DeleteRow(table, key)
  /\ cacheLast' = Called("delete", "", "", NoResult, {})
  /\ readRows' = readRows \cap DOMAIN table'
  /\ UNCHANGED <<now, inst>>
  /\ UNCHANGED exceptCache

\* clear()
CacheClear ==
  /\ table' = [k \in {} |-> 0]
  /\ cacheLast' = Called("clear", "", "", NoResult, {})
  /\ readRows' = readRows \cap DOMAIN table'
  /\ UNCHANGED <<now, inst>>
  /\ UNCHANGED exceptCache

\* cleanup()
CacheCleanup ==
  /\ table' = CleanupRows(table, now)
  /\ cacheLast' = Called("cleanup", "", "", NoResult, {})
  /\ readRows' = readRows \cap DOMAIN table'
  /\ UNCHANGED <<now, inst>>
  /\ UNCHANGED exceptCache

\* invalidateVersion(version)
CacheInvalidateVersion(version) ==
  /\ table' = [k \in {j \in DOMAIN table : table[j].version # version} |-> table[k]]
  /\ cacheLast' = Called("invalidateVersion", "", "", NoResult, {})
  /\ readRows' = readRows \cap DOMAIN table'
  /\ UNCHANGED <<now, inst>>
  /\ UNCHANGED exceptCache

\* The statements of set(), each run by SQLite on its own (there is no
\* transaction): the table before the call, after the eviction DELETE (when
\* there is one) and after INSERT OR REPLACE.
SetStepsTwoWrites(t, key, value, customTTL) ==
  {<<t,
     [k \in (DOMAIN t) \ o.evicted |-> t[k]],
     [o.table EXCEPT ![key].last_accessed_at = now],
     o.table>> : o \in SetOutcomes(t, key, value, customTTL)}

SetSteps(t, key, value, customTTL) ==
  {<<t,
     [k \in (DOMAIN t) \ o.evicted |-> t[k]],
     o.table>> : o \in SetOutcomes(t, key, value, customTTL)}

\* The statements of get() that write: one DELETE, or one UPDATE of
\* last_accessed_at, or none.
GetSteps(t, key, version, at) == <<t, GetOutcome(t, key, version, at).table>>

\* set(key, value, customTTL) in a process that dies during the call: the
\* table is left as it is after one of the statements.
CacheSetCrash(key, value, customTTL) ==
  /\ \E steps \in SetSteps(table, key, value, customTTL) :
       \E i \in DOMAIN steps :
         /\ table' = steps[i]
         /\ cacheLast' = Called("set", key, "crash", NoResult, (DOMAIN table) \ DOMAIN steps[2])
  /\ readRows' = readRows \cap DOMAIN table'
  /\ UNCHANGED <<now, inst>>
  /\ UNCHANGED exceptCache

\* get(key) in a process that dies during the call.
CacheGetCrash(key) ==
  /\ LET steps == GetSteps(table, key, inst.version, now)
     IN \E i \in DOMAIN steps : table' = steps[i]
  /\ cacheLast' = Called("get", key, "crash", NoResult, {})
  /\ readRows' = readRows \cap DOMAIN table'
  /\ UNCHANGED <<now, inst>>
  /\ UNCHANGED exceptCache

\* A stored BLOB is damaged outside the program (memex.db is a file on disk):
\* msgpack.decode will reject it.
CacheCorrupt(key) ==
  /\ key \in DOMAIN table
  /\ table[key].value # Garbage
  /\ table' = [table EXCEPT ![key].value = Garbage]
  /\ UNCHANGED <<now, inst, cacheLast, readRows>>
  /\ UNCHANGED exceptCache

\* A millisecond passes.
Tick ==
  /\ now < MaxTime
  /\ now' = now + 1
  /\ UNCHANGED <<inst, table, cacheLast, readRows>>
  /\ UNCHANGED exceptCache

CacheInit ==
  /\ now = 0
  /\ inst = Construct(Null, Null, <<2>>)
  /\ table = [k \in {} |-> 0]
  /\ cacheLast = Called("open", "", "", NoResult, {})
  /\ readRows = {}

CacheNext ==
  \/ Tick
  \/ \E v \in VersionOptions, t \in TtlOptions, m \in MaxEntriesArgs : CacheOpen(v, t, m)
  \/ \E k \in Keys : CacheGet(k)
  \/ \E k \in Keys, v \in Values, t \in TtlArgs : CacheSet(k, v, t)
  \/ \E k \in Keys : CacheDelete(k)
  \/ CacheClear
  \/ CacheCleanup
  \/ \E v \in Versions : CacheInvalidateVersion(v)

\* The cache beside damaged rows.
CacheCorruptNext ==
  \/ Tick
  \/ \E k \in Keys : CacheGet(k)
  \/ \E k \in Keys, v \in Values : CacheSet(k, v, Null)
  \/ \E k \in Keys : CacheCorrupt(k)

\* The cache with its eager clean-up, at construction and on demand.
CacheCleanupNext ==
  \/ Tick
  \/ \E v \in VersionOptions, m \in MaxEntriesArgs : CacheOpen(v, Null, m)
  \/ \E k \in Keys, v \in Values, t \in TtlArgs : CacheSet(k, v, t)
  \/ CacheCleanup

\* The cache in processes that may die during a call.
CacheCrashNext ==
  \/ Tick
  \/ \E k \in Keys : CacheGet(k)
  \/ \E k \in Keys, v \in Values : CacheSet(k, v, Null)
  \/ \E k \in Keys, v \in Values : CacheSetCrash(k, v, Null)
  \/ \E k \in Keys : CacheGetCrash(k)

-----------------------------------------------------------------------------
(* JSON files *)

NoFile == [fmt |-> "absent"]

\* JSON.stringify(value, null, 2), written to a file.
JsonStringify(v) == [fmt |-> "json", doc |-> v]

\* JSON.parse(text) throws on text that is not JSON.
JsonParses(f) == f.fmt = "json"
JsonParse(f) == f.doc

\* null / undefined
JsNull == [kind |-> "null"]

\* A number, and the NaN that 0/0 gives; JSON.stringify writes NaN as null.
JsNumber(n) == [kind |-> "number", n |-> n]
JsNaN == [kind |-> "NaN"]
JsonNumber(x) == IF x = JsNaN THEN JsNull ELSE x

\* `delete doc.field` for each of the fields.
Without(doc, fields) == [f \in (DOMAIN doc) \ fields |-> doc[f]]

-----------------------------------------------------------------------------
(* Strings: a JavaScript string is the sequence of its characters *)

UpperCase ==
  <<"A", "B", "C", "D", "E", "F", "G", "H", "I", "J", "K", "L", "M",
    "N", "O", "P", "Q", "R", "S", "T", "U", "V", "W", "X", "Y", "Z">>
LowerCase ==
  <<"a", "b", "c", "d", "e", "f", "g", "h", "i", "j", "k", "l", "m",
    "n", "o", "p", "q", "r", "s", "t", "u", "v", "w", "x", "y", "z">>

LowerChar(c) ==
  IF \E i \in DOMAIN UpperCase : UpperCase[i] = c
    THEN LowerCase[CHOOSE i \in DOMAIN UpperCase : UpperCase[i] = c]
    ELSE c

\* str.toLowerCase()
ToLowerCase(str) == [i \in 1..Len(str) |-> LowerChar(str[i])]

\* str.includes(sub)
Includes(str, sub) ==
  \E i \in 0..(Len(str) - Len(sub)) : SubSeq(str, i + 1, i + Len(sub)) = sub

IsSpace(c) == c \in {" ", "\t", "\n"}

\* str.split(/\s+/): `word` is the piece being read.
RECURSIVE SplitFrom(_, _)
SplitFrom(str, word) ==
  IF str = <<>> THEN <<word>>
  ELSE IF IsSpace(Head(str))
    THEN IF Tail(str) # <<>> /\ IsSpace(Head(Tail(str)))
           THEN SplitFrom(Tail(str), word)
           ELSE <<word>> \o SplitFrom(Tail(str), <<>>)
  ELSE SplitFrom(Tail(str), Append(word, Head(str)))

SplitWhitespace(str) == SplitFrom(str, <<>>)

\* The elements of an array.
Elements(seq) == {seq[i] : i \in DOMAIN seq}

-----------------------------------------------------------------------------
(* BloomFilter *)

\* The items of bloom filter calls.
BloomItems ==
  {<<"D", "o", "c", "k", "e", "r">>, <<"d", "o", "c", "k", "e", "r">>,
   <<"D", "O", "C", "K", "E", "R">>, <<"a", "u", "t", "h">>, <<"a", "p", "i">>}

\* new BloomFilter(expectedItems) is called with these.
ExpectedItemsArgs == {4, 20}

\* crypto.createHash('md5').update(str).digest(): its first four bytes, the
\* ones getHashes() reads.
Md5(str) ==
  CASE str = <<"d", "o", "c", "k", "e", "r">> -> <<5, 182, 5, 60>>
    [] str = <<"a", "u", "t", "h">> -> <<250, 83, 185, 28>>
    [] str = <<"a", "p", "i">> -> <<138, 93, 165, 46>>
    [] str = <<"r", "e", "d", "i", "s">> -> <<134, 161, 185, 7>>
    [] str = <<"m", "e", "m", "e", "x">> -> <<4, 18, 119, 209>>
    [] str = <<"s", "e", "t", "u", "p">> -> <<160, 248, 72, 148>>
    [] str = <<"d", "o", "c", "k">> -> <<5, 222, 189, 184>>
    [] str = <<"f", "i", "x">> -> <<138, 184, 125, 79>>
    [] str = <<"m", "e", "-", "2", "0", "2", "5", "-", "1", "2", "-", "0", "3", "-", "a", "u", "t", "h">> -> <<93, 204, 208, 94>>
    [] str = <<"m", "e", "-", "2", "0", "2", "5", "-", "1", "2", "-", "0", "3", "-", "s", "e", "s", "s", "i", "o", "n">> -> <<15, 133, 201, 125>>

\* crypto.createHash('sha1').update(str).digest(): its first four bytes.
Sha1(str) ==
  CASE str = <<"d", "o", "c", "k", "e", "r">> -> <<233, 130, 241, 123>>
    [] str = <<"a", "u", "t", "h">> -> <<102, 163, 110, 119>>
    [] str = <<"a", "p", "i">> -> <<160, 51, 165, 40>>
    [] str = <<"r", "e", "d", "i", "s">> -> <<184, 64, 252, 2>>
    [] str = <<"m", "e", "m", "e", "x">> -> <<157, 108, 62, 22>>
    [] str = <<"s", "e", "t", "u", "p">> -> <<128, 67, 122, 68>>
    [] str = <<"d", "o", "c", "k">> -> <<219, 103, 220, 31>>
    [] str = <<"f", "i", "x">> -> <<153, 247, 7, 239>>
    [] str = <<"m", "e", "-", "2", "0", "2", "5", "-", "1", "2", "-", "0", "3", "-", "a", "u", "t", "h">> -> <<130, 171, 53, 158>>
    [] str = <<"m", "e", "-", "2", "0", "2", "5", "-", "1", "2", "-", "0", "3", "-", "s", "e", "s", "s", "i", "o", "n">> -> <<55, 146, 176, 235>>

\* The constructor's size, Math.ceil(-(n * Math.log(p)) / (Math.log(2) ** 2)),
\* for p = 0.01, the only rate the program passes: -ln(0.01)/ln(2)^2 is
\* 9.585058..., and for n up to 200 the ceiling is the one computed here.
BloomSize(n) == (n * 9585059 + 999999) \div 1000000

\* The constructor's numHashFunctions, Math.ceil((size / n) * Math.log(2)),
\* ln(2) being 0.693147...; with n = 0 it is NaN.
NumHashFunctions(n) ==
  IF n = 0 THEN JsNaN
  ELSE JsNumber((BloomSize(n) * 693148 + (n * 1000000 - 1)) \div (n * 1000000))

\* new BloomFilter(expectedItems, 0.01)
NewBloomFilter(n) ==
  [expectedItems |-> n,
   falsePositiveRate |-> "0.01",
   size |-> BloomSize(n),
   numHashFunctions |-> NumHashFunctions(n),
   bits |-> [b \in 0..(((BloomSize(n) + 7) \div 8) - 1) |-> 0],
   itemCount |-> 0]

\* How often `for (let i = 0; i < this.numHashFunctions; i++)` runs: `i < NaN`
\* and `0 < null` are false.
Iterations(k) == IF k.kind = "number" THEN k.n ELSE 0

\* Math.abs(hash) % size, for hash = hi * 2^16 + lo with lo >= 0. The sum
\* getHashes() builds is a double beyond 32 bits, so it is held in two parts.
AbsMod(hi, lo, size) ==
  LET h == hi + (lo \div 65536)
      l == lo % 65536
      H == IF h >= 0 THEN h ELSE IF l = 0 THEN -h ELSE -h - 1
      L == IF h >= 0 THEN l ELSE IF l = 0 THEN 0 ELSE 65536 - l
  IN (((H % size) * (65536 % size)) + L) % size

\* getHashes(str): hash1[0..3] read big-endian into a signed 32-bit integer,
\* plus i times (hash2[j] << (j * 8)) for j = 0..3, the last shift being
\* signed; then Math.abs(hash) % this.size.
GetHashes(f, str) ==
  LET hash1 == Md5(ToLowerCase(str))
      hash2 == Sha1(ToLowerCase(str))
      top == hash1[1] * 256 + hash1[2]
      h1hi == IF top >= 32768 THEN top - 65536 ELSE top
      h1lo == hash1[3] * 256 + hash1[4]
      h2lo == hash2[1] + hash2[2] * 256
      h2hi == hash2[3] + 256 * (IF hash2[4] >= 128 THEN hash2[4] - 256 ELSE hash2[4])
  IN [idx \in 1..Iterations(f.numHashFunctions) |->
        AbsMod(h1hi + (idx - 1) * h2hi, h1lo + (idx - 1) * h2lo, f.size)]

\* this.bits[byteIndex] & (1 << bitIndex); beyond the end of the Uint8Array
\* the byte reads as undefined and the test is 0.
TestBit(bits, hash) ==
  /\ (hash \div 8) \in DOMAIN bits
  /\ (bits[hash \div 8] \div (2 ^ (hash % 8))) % 2 = 1

\* this.bits[byteIndex] |= (1 << bitIndex); a write beyond the end of the
\* Uint8Array is dropped.
SetBit(bits, hash) ==
  IF TestBit(bits, hash) \/ (hash \div 8) \notin DOMAIN bits THEN bits
  ELSE [bits EXCEPT ![hash \div 8] = @ + 2 ^ (hash % 8)]

\* add(): the loop over the hashes.
RECURSIVE SetBitsButLast(_, _)
SetBitsButLast(bits, hashes) ==
  IF Len(hashes) <= 1 THEN bits
  ELSE SetBitsButLast(SetBit(bits, Head(hashes)), Tail(hashes))

RECURSIVE SetBits(_, _)
SetBits(bits, hashes) ==
  IF hashes = <<>> THEN bits
  ELSE SetBits(SetBit(bits, Head(hashes)), Tail(hashes))

\* add(item)
Add(f, item) ==
  [f EXCEPT !.bits = SetBits(f.bits, GetHashes(f, item)), !.itemCount = @ + 1]

\* mightContain(item)
MightContain(f, item) ==
  LET hashes == GetHashes(f, item)
  IN \A i \in DOMAIN hashes : TestBit(f.bits, hashes[i])

\* terms.forEach(term => filter.add(term))
RECURSIVE AddAll(_, _)
AddAll(f, items) ==
  IF items = {} THEN f
  ELSE LET item == CHOOSE x \in items : TRUE
       IN AddAll(Add(f, item), items \ {item})

\* toJSON(). actualFalsePositiveRate is a float nothing reads back; it is left out.
ToJSON(f) ==
  [version |-> "1.0.0",
   expectedItems |-> f.expectedItems,
   falsePositiveRate |-> f.falsePositiveRate,
   size |-> f.size,
   numHashFunctions |-> f.numHashFunctions,
   itemCount |-> f.itemCount,
   bits |-> f.bits,
   sizeBytes |-> Cardinality(DOMAIN f.bits)]

\* JSON.stringify(this.toJSON(), null, 2) in save(): a NaN is written as null.
StringifyFilter(f) ==
  JsonStringify([ToJSON(f) EXCEPT !.numHashFunctions = JsonNumber(@)])

\* BloomFilter.fromJSON(json)
FromJSONNoCount(json) ==
  [NewBloomFilter(json.expectedItems) EXCEPT
     !.falsePositiveRate = json.falsePositiveRate,
     !.size = json.size,
     !.numHashFunctions = json.numHashFunctions,
     !.bits = json.bits]

FromJSON(json) ==
  [NewBloomFilter(json.expectedItems) EXCEPT
     !.falsePositiveRate = json.falsePositiveRate,
     !.size = json.size,
     !.numHashFunctions = json.numHashFunctions,
     !.itemCount = json.itemCount,
     !.bits = json.bits]

\* What a BloomFilter call did.
BloomCalled(op, item, result) == [op |-> op, item |-> item, result |-> result]

\* new BloomFilter(n, 0.01)
BloomNew(n) ==
  /\ filter' = NewBloomFilter(n)
  /\ bloomAdded' = {}
  /\ bloomLast' = BloomCalled("new", <<>>, FALSE)
  /\ UNCHANGED <<bloomFile, bloomSaved>>
  /\ UNCHANGED exceptBloom

\* filter.add(item)
BloomAdd(item) ==
  /\ filter # JsNull
  /\ filter.itemCount < MaxItemCount
  /\ filter' = Add(filter, item)
  /\ bloomAdded' = bloomAdded \cup {item}
  /\ bloomLast' = BloomCalled("add", <<>>, FALSE)
  /\ UNCHANGED <<bloomFile, bloomSaved>>
  /\ UNCHANGED exceptBloom

\* filter.mightContain(item)
BloomMightContain(item) ==
  /\ filter # JsNull
  /\ bloomLast' = BloomCalled("mightContain", item, MightContain(filter, item))
  /\ UNCHANGED <<filter, bloomFile, bloomAdded, bloomSaved>>
  /\ UNCHANGED exceptBloom

\* filter.save()
BloomSave ==
  /\ filter # JsNull
  /\ bloomFile' = StringifyFilter(filter)
  /\ bloomSaved' = bloomAdded
  /\ bloomLast' = BloomCalled("save", <<>>, FALSE)
  /\ UNCHANGED <<filter, bloomAdded>>
  /\ UNCHANGED exceptBloom

\* The filter BloomFilter.load() returns: null when there is no file.
Load(file) == IF file = NoFile THEN JsNull ELSE FromJSON(JsonParse(file))

\* filter = BloomFilter.load()
BloomLoad ==
  /\ filter' = Load(bloomFile)
  /\ bloomAdded' = IF bloomFile = NoFile THEN {} ELSE bloomSaved
  /\ bloomLast' = BloomCalled("load", <<>>, FALSE)
  /\ UNCHANGED <<bloomFile, bloomSaved>>
  /\ UNCHANGED exceptBloom

\* restored = BloomFilter.fromJSON(filter.toJSON()), with no file in between.
BloomRestore ==
  /\ filter # JsNull
  /\ filter' = FromJSON(ToJSON(filter))
  /\ bloomLast' = BloomCalled("fromJSON", <<>>, FALSE)
  /\ UNCHANGED <<bloomFile, bloomAdded, bloomSaved>>
  /\ UNCHANGED exceptBloom

\* .cache/bloom-filter.json comes from a filter of another geometry: its size
\* and numHashFunctions are those of a filter for n expected items, beside
\* the expectedItems and the bits of the filter that was saved.
BloomFileForeign(n) ==
  /\ bloomFile # NoFile
  /\ JsonParse(bloomFile).size = BloomSize(JsonParse(bloomFile).expectedItems)
  /\ BloomSize(n) # JsonParse(bloomFile).size
  /\ bloomFile' = JsonStringify([JsonParse(bloomFile) EXCEPT
                     !.size = BloomSize(n),
                     !.numHashFunctions = JsonNumber(NumHashFunctions(n))])
  /\ bloomLast' = BloomCalled("foreign", <<>>, FALSE)
  /\ UNCHANGED <<filter, bloomAdded, bloomSaved>>
  /\ UNCHANGED exceptBloom

BloomInit ==
  /\ filter = JsNull
  /\ bloomFile = NoFile
  /\ bloomAdded = {}
  /\ bloomSaved = {}
  /\ bloomLast = BloomCalled("none", <<>>, FALSE)

BloomNext ==
  \/ \E n \in ExpectedItemsArgs : BloomNew(n)
  \/ \E item \in BloomItems : BloomAdd(item)
  \/ \E item \in BloomItems : BloomMightContain(item)
  \/ BloomSave
  \/ BloomLoad

\* Filters restored from their own toJSON().
BloomRoundTripNext ==
  \/ \E n \in ExpectedItemsArgs \cup {0} : BloomNew(n)
  \/ \E item \in BloomItems : BloomAdd(item)
  \/ BloomRestore

\* The filter beside a file of another geometry.
BloomFilesNext ==
  \/ \E n \in ExpectedItemsArgs : BloomNew(n)
  \/ \E item \in {<<"a", "u", "t", "h">>, <<"a", "p", "i">>} : BloomAdd(item)
  \/ BloomSave
  \/ BloomLoad
  \/ \E n \in ExpectedItemsArgs : BloomFileForeign(n)

-----------------------------------------------------------------------------
(* ManifestManager *)

\* Tracked paths: each matches one of the patterns generate() scans.
Paths == {"index.json", "summaries/projects/Memex/sessions-index.json"}

\* File contents, and the modification times a file can carry.
Contents == {"{\"v\":1}", "{\"v\":10}"}
Mtimes == {1, 2}

\* hashFile(): the first 16 hex digits of the SHA-256 of the content.
HashFile(content) ==
  CASE content = "{\"v\":1}" -> "afbf9d0f3560b0fd"
    [] content = "{\"v\":10}" -> "ff0dab9b658a8d85"

\* fs.statSync(path).size
FileSize(content) ==
  CASE content = "{\"v\":1}" -> 7
    [] content = "{\"v\":10}" -> 8

\* getFileMetadata(filePath)
GetFileMetadata(d, path) ==
  [hash |-> HashFile(d[path].content),
   size |-> FileSize(d[path].content),
   mtime |-> d[path].mtime]

RECURSIVE SumSizes(_, _)
SumSizes(files, paths) ==
  IF paths = {} THEN 0
  ELSE LET p == CHOOSE q \in paths : TRUE
       IN files[p].size + SumSizes(files, paths \ {p})

\* glob('metadata/projects/*.json') and glob('summaries/projects/*/sessions-index.json')
ProjectFiles(d) == {p \in DOMAIN d : p \in {"metadata/projects/Memex.json"}}
SessionFiles(d) == {p \in DOMAIN d : p \in {"summaries/projects/Memex/sessions-index.json"}}

\* generate(): the manifest of the files on disk. generated_at and
\* generation_time_ms are wall-clock readings no operation reads back; they
\* are left out.
Scan(d) ==
  LET files == [p \in DOMAIN d |-> GetFileMetadata(d, p)]
  IN [version |-> "3.2.0",
      files |-> files,
      stats |-> [total_files |-> Cardinality(DOMAIN d),
                 total_size_bytes |-> SumSizes(files, DOMAIN d),
                 projects |-> Cardinality(ProjectFiles(d)),
                 sessions |-> Cardinality(SessionFiles(d))]]

\* load(): what it returns, and this.manifest after it.
LoadResult(file) == IF file = NoFile THEN JsNull ELSE JsonParse(file)
ManifestAfterLoad(file, current) == IF file = NoFile THEN current ELSE JsonParse(file)

\* detectChanges(), lines 136-169: `current` is this.manifest as the loops
\* read it, `old` the manifest load() returned. The arrays hold each path once;
\* they are modelled as sets.
ChangesBetween(old, current) ==
  [changed |-> {p \in DOMAIN current.files :
                  /\ p \in DOMAIN old.files
                  /\ (old.files[p].hash # current.files[p].hash
                      \/ old.files[p].mtime # current.files[p].mtime)},
   added |-> {p \in DOMAIN current.files : p \notin DOMAIN old.files},
   deleted |-> {p \in DOMAIN old.files : p \notin DOMAIN current.files},
   is_first_run |-> FALSE]

FirstRun == [changed |-> {}, added |-> {}, deleted |-> {}, is_first_run |-> TRUE]

\* detectChanges(): load() runs first and assigns this.manifest.
DetectChangesNeverFirst(file, current) ==
  IF file = NoFile THEN [FirstRun EXCEPT !.is_first_run = FALSE]
  ELSE ChangesBetween(JsonParse(file), ManifestAfterLoad(file, current))

DetectChanges(file, current) ==
  IF file = NoFile THEN FirstRun
  ELSE ChangesBetween(JsonParse(file), ManifestAfterLoad(file, current))

\* new ManifestManager()
MgrNew ==
  /\ mgrManifest' = JsNull
  /\ UNCHANGED <<disk, manifestFile, mgrLast>>
  /\ UNCHANGED exceptManifest

\* load()
MgrLoad ==
  /\ mgrManifest' = ManifestAfterLoad(manifestFile, mgrManifest)
  /\ UNCHANGED <<disk, manifestFile, mgrLast>>
  /\ UNCHANGED exceptManifest

\* generate()
MgrGenerate ==
  /\ mgrManifest' = Scan(disk)
  /\ UNCHANGED <<disk, manifestFile, mgrLast>>
  /\ UNCHANGED exceptManifest

\* save(): throws when there is no manifest.
MgrSave ==
  /\ mgrManifest # JsNull
  /\ manifestFile' = JsonStringify(mgrManifest)
  /\ UNCHANGED <<disk, mgrManifest, mgrLast>>
  /\ UNCHANGED exceptManifest

\* detectChanges(): with neither a saved manifest nor this.manifest it returns
\* the first-run value; with a saved manifest, load() has set this.manifest.
MgrDetectChanges ==
  /\ mgrLast' = [op |-> "detectChanges", result |-> DetectChanges(manifestFile, mgrManifest)]
  /\ mgrManifest' = ManifestAfterLoad(manifestFile, mgrManifest)
  /\ UNCHANGED <<disk, manifestFile>>
  /\ UNCHANGED exceptManifest

\* getChangedFiles(): load(), generate(), detectChanges().
MgrGetChangedFiles ==
  /\ mgrLast' = [op |-> "getChangedFiles", result |-> DetectChanges(manifestFile, Scan(disk))]
  /\ mgrManifest' = ManifestAfterLoad(manifestFile, Scan(disk))
  /\ UNCHANGED <<disk, manifestFile>>
  /\ UNCHANGED exceptManifest

\* A tracked file is written, or its modification time is set.
FileWrite(path, content, mtime) ==
  /\ disk' = [p \in (DOMAIN disk) \cup {path} |->
                IF p = path THEN [content |-> content, mtime |-> mtime] ELSE disk[p]]
  /\ UNCHANGED <<manifestFile, mgrManifest, mgrLast>>
  /\ UNCHANGED exceptManifest

\* A tracked file is removed.
FileDelete(path) ==
  /\ path \in DOMAIN disk
  /\ disk' = [p \in (DOMAIN disk) \ {path} |-> disk[p]]
  /\ UNCHANGED <<manifestFile, mgrManifest, mgrLast>>
  /\ UNCHANGED exceptManifest

\* generate() when fs.statSync or fs.readFileSync throws for one of the
\* matched files (removed after the glob, or unreadable): getFileMetadata() is
\* called outside any try, the exception leaves generate() and this.manifest
\* is not assigned.
MgrGenerateFailing(failing) ==
  /\ failing \cap DOMAIN disk # {}
  /\ mgrLast' = [op |-> "generate", result |-> [threw |-> "Error", warnings |-> {}]]
  /\ UNCHANGED <<disk, manifestFile, mgrManifest>>
  /\ UNCHANGED exceptManifest

\* What fs.writeFileSync leaves when it does not finish (process killed, disk
\* full): the file is opened with flag 'w', which empties it, then written.
Truncated(file) == [fmt |-> "truncated", doc |-> JsNull]

\* save() that is interrupted: before the file is opened, while it is
\* written, or after the last byte.
MgrSaveInterrupted ==
  /\ mgrManifest # JsNull
  /\ \E file \in {manifestFile,
                  Truncated(JsonStringify(mgrManifest)),
                  JsonStringify(mgrManifest)} : manifestFile' = file
  /\ mgrLast' = [op |-> "save", result |-> [threw |-> "interrupted", warnings |-> {}]]
  /\ UNCHANGED <<disk, mgrManifest>>
  /\ UNCHANGED exceptManifest

\* The index artifacts needsIndexUpdate() looks at.
IndexArtifacts == <<"index.json", "index.json.gz", "index.msgpack">>

\* needsIndexUpdate(): true without a saved manifest; else true when one of
\* the artifacts has an entry in the saved manifest, exists, and hashes
\* differently.
NeedsIndexUpdateFirstOnly(file, d) ==
  IF file = NoFile THEN TRUE
  ELSE LET old == JsonParse(file)
           f == IndexArtifacts[1]
       IN /\ f \in DOMAIN old.files
          /\ f \in DOMAIN d
          /\ GetFileMetadata(d, f).hash # old.files[f].hash

NeedsIndexUpdate(file, d) ==
  IF file = NoFile THEN TRUE
  ELSE LET old == JsonParse(file)
       IN \E i \in DOMAIN IndexArtifacts :
            LET f == IndexArtifacts[i]
            IN /\ f \in DOMAIN old.files
               /\ f \in DOMAIN d
               /\ GetFileMetadata(d, f).hash # old.files[f].hash

\* needsIndexUpdate(): load() runs first and assigns this.manifest.
MgrNeedsIndexUpdate ==
  /\ mgrLast' = [op |-> "needsIndexUpdate", result |-> NeedsIndexUpdate(manifestFile, disk)]
  /\ mgrManifest' = ManifestAfterLoad(manifestFile, mgrManifest)
  /\ UNCHANGED <<disk, manifestFile>>
  /\ UNCHANGED exceptManifest

ManifestInit ==
  /\ disk = [p \in {} |-> 0]
  /\ manifestFile = NoFile
  /\ mgrManifest = JsNull
  /\ mgrLast = [op |-> "none", result |-> FirstRun]

ManifestNext ==
  \/ MgrNew
  \/ MgrLoad
  \/ MgrGenerate
  \/ MgrSave
  \/ MgrDetectChanges
  \/ MgrGetChangedFiles
  \/ \E p \in Paths, c \in Contents, m \in Mtimes : FileWrite(p, c, m)
  \/ \E p \in Paths : FileDelete(p)

\* The manager beside failing reads and an interrupted save().
ManifestFaultsNext ==
  \/ MgrGenerate
  \/ \E failing \in (SUBSET Paths) \ {{}} : MgrGenerateFailing(failing)
  \/ MgrSave
  \/ MgrSaveInterrupted
  \/ \E p \in Paths, c \in Contents, m \in Mtimes : FileWrite(p, c, m)
  \/ \E p \in Paths : FileDelete(p)

\* The manager beside the index artifacts.
IndexUpdateNext ==
  \/ MgrGenerate
  \/ MgrSave
  \/ MgrNeedsIndexUpdate
  \/ \E p \in {"index.json", "index.msgpack"}, c \in Contents, m \in Mtimes : FileWrite(p, c, m)
  \/ \E p \in {"index.json", "index.msgpack"} : FileDelete(p)

\* `manifest-manager generate`: generate() and save() on a new manager.
CliGenerate ==
  /\ mgrManifest' = Scan(disk)
  /\ manifestFile' = JsonStringify(mgrManifest')
  /\ UNCHANGED <<disk, mgrLast>>
  /\ UNCHANGED exceptManifest

\* `manifest-manager check`: getChangedFiles() and save() on a new manager.
\* getChangedFiles() runs load(), generate() and detectChanges(), whose own
\* load() assigns this.manifest last; save() writes this.manifest.
CliCheck ==
  /\ mgrLast' = [op |-> "getChangedFiles", result |-> DetectChanges(manifestFile, Scan(disk))]
  /\ mgrManifest' = ManifestAfterLoad(manifestFile, Scan(disk))
  /\ manifestFile' = JsonStringify(mgrManifest')
  /\ UNCHANGED disk
  /\ UNCHANGED exceptManifest

\* The command line beside the tracked files.
ManifestCliNext ==
  \/ CliGenerate
  \/ CliCheck
  \/ \E p \in Paths, c \in Contents, m \in Mtimes : FileWrite(p, c, m)
  \/ \E p \in Paths : FileDelete(p)

-----------------------------------------------------------------------------
(* Sessions: Recuerda.saveSession *)

\* this.currentProject, as detectProject() found it.
PROJECT == <<"M", "e", "m", "e", "x">>

\* new Date().toISOString().split('T')[0]
Today == <<"2", "0", "2", "5", "-", "1", "2", "-", "0", "3">>

\* The summaries and topic lists saveSession() is called with.
Summaries == {<<"F", "i", "x", " ", "a", "p", "i", " ", "a", "u", "t", "h">>, <<"D", "o", "c", "k", "e", "r", " ", "s", "e", "t", "u", "p">>}
TopicsArgs == {<<<<"a", "u", "t", "h">>>>, <<>>}

\* getGitChanges() in a clean work tree; it returns null when git fails.
GitChanges ==
  [files_added |-> <<>>, files_modified |-> <<>>, files_deleted |-> <<>>,
   lines_added |-> 0, lines_removed |-> 0]

\* generateSessionId(topics)
GenerateSessionId(topics) ==
  LET projectPrefix == ToLowerCase(SubSeq(PROJECT, 1, 2))
      topicSlug == IF topics = <<>> \/ topics[1] = <<>> THEN <<"s", "e", "s", "s", "i", "o", "n">> ELSE topics[1]
  IN projectPrefix \o <<"-">> \o Today \o <<"-">> \o topicSlug

\* saveSession(): the session metadata, with code_changes when git answers.
NewSession(summary, topics, git) ==
  LET session == [id |-> GenerateSessionId(topics),
                  project |-> PROJECT,
                  date |-> Today,
                  summary |-> summary,
                  topics |-> topics,
                  key_decisions |-> <<>>,
                  outcomes |-> [completed |-> <<>>],
                  learnings |-> <<>>]
  IN IF git
       THEN ("code_changes" :>
               [files_added |-> GitChanges.files_added,
                files_modified |-> GitChanges.files_modified,
                files_deleted |-> GitChanges.files_deleted,
                lines_added |-> GitChanges.lines_added,
                lines_removed |-> GitChanges.lines_removed]) @@ session
       ELSE session

\* saveSession(): the sessions index it starts when the file does not exist.
EmptySessionsIndex ==
  [project |-> PROJECT,
   total_sessions |-> 0,
   last_updated |-> Today,
   sessions |-> <<>>,
   topics_index |-> [t \in {} |-> <<>>]]

\* topics.forEach(topic => { ... sessionsIndex.topics_index[topic].push(sessionId) })
RECURSIVE PushTopics(_, _, _)
PushTopics(topicsIndex, topics, sessionId) ==
  IF topics = <<>> THEN topicsIndex
  ELSE LET topic == Head(topics)
           ids == IF topic \in DOMAIN topicsIndex THEN topicsIndex[topic] ELSE <<>>
       IN PushTopics((topic :> Append(ids, sessionId)) @@ topicsIndex, Tail(topics), sessionId)

\* saveSession(): the sessions index after the session is added.
WithSession(index, session) ==
  [index EXCEPT
     !.sessions = <<session>> \o @,
     !.total_sessions = @ + 1,
     !.last_updated = Today,
     !.topics_index = PushTopics(@, session.topics, session.id)]

\* The main index: the abbreviated keys the loader reads (v, m.ts, g, p, t)
\* and the keys updateMainIndex() writes (projects, metadata, last_updated).
IndexDoc(ts) ==
  [v |-> "2.0",
   m |-> [ts |-> ts],
   g |-> [cs |-> [qr |-> "type(scope): description"]],
   p |-> (PROJECT :> [d |-> <<"K", "n", "o", "w", "l", "e", "d", "g", "e", " ", "b", "a", "s", "e">>, tp |-> <<<<"d", "o", "c", "k", "e", "r">>>>, qr |-> "qr"]),
   t |-> ((<<"d", "o", "c", "k", "e", "r">> :> [p |-> <<PROJECT>>, sc |-> 1])
          @@ (<<"a", "u", "t", "h">> :> [p |-> <<PROJECT>>, sc |-> 1])),
   projects |-> (PROJECT :> [session_count |-> ts, last_updated |-> Today]),
   metadata |-> [total_sessions |-> ts],
   last_updated |-> Today]

\* Object.values(index.projects).reduce((sum, p) => sum + (p.session_count || 0), 0)
RECURSIVE SumSessionCounts(_, _)
SumSessionCounts(projects, names) ==
  IF names = {} THEN 0
  ELSE LET name == CHOOSE n \in names : TRUE
       IN projects[name].session_count + SumSessionCounts(projects, names \ {name})

\* updateMainIndex(): the index it writes, given the sessions index on disk.
UpdatedMainIndex(index, sessions) ==
  LET projects == IF PROJECT \in DOMAIN index.projects
                    THEN [index.projects EXCEPT
                            ![PROJECT].session_count = sessions.total_sessions,
                            ![PROJECT].last_updated = Today]
                    ELSE index.projects
  IN [index EXCEPT
        !.projects = projects,
        !.last_updated = Today,
        !.metadata.total_sessions = SumSessionCounts(projects, DOMAIN projects)]

\* updateMainIndex(): how it ends. It reads index.json without a try and
\* dereferences index.projects.
MainIndexOutcome(file) ==
  IF file = NoFile THEN "ENOENT"
  ELSE IF ~JsonParses(file) THEN "SyntaxError"
  ELSE IF "projects" \notin DOMAIN JsonParse(file) THEN "TypeError"
  ELSE "saved"

\* saveSession(summary, topics), called on a Recuerda whose constructor has
\* run. No full content is passed, as from the command line; commitToGit()
\* touches none of the files modelled here.
SaveSession(summary, topics, git) ==
  /\ sessionsIndex = NoFile \/ JsonParses(sessionsIndex)
  /\ LET before == IF sessionsIndex = NoFile THEN EmptySessionsIndex
                   ELSE JsonParse(sessionsIndex)
         after == WithSession(before, NewSession(summary, topics, git))
         outcome == MainIndexOutcome(indexFiles["json"])
     IN /\ Len(before.sessions) < MaxSessions
        /\ sessionsIndex' = JsonStringify(after)
        /\ indexFiles' =
             IF outcome = "saved"
               THEN [indexFiles EXCEPT
                       !["json"] = JsonStringify(UpdatedMainIndex(JsonParse(@), after))]
               ELSE indexFiles
        /\ sessLast' = [op |-> "save", result |-> outcome, original |-> <<>>]
  /\ UNCHANGED <<detailFiles, memexIndex, loadLast, searchLast>>
  /\ UNCHANGED <<cacheVars, manifestVars, bloomVars, detailVars, proVars, migrateVars, hotVars, proHotVars>>

-----------------------------------------------------------------------------
(* LazyLoader *)

\* Buffer.byteLength(JSON.stringify(array)) for an array of strings.
RECURSIVE StringsLength(_)
StringsLength(strings) ==
  IF strings = <<>> THEN 0
  ELSE Len(Head(strings)) + 2 + (IF Tail(strings) = <<>> THEN 0 ELSE 1)
       + StringsLength(Tail(strings))

\* Buffer.byteLength(JSON.stringify(session)) for a session saveSession()
\* wrote, or its lightweight form: the text of the keys and punctuation plus
\* the lengths of the strings.
SessionJsonLength(session) ==
  57 + Len(session.id) + Len(session.project) + Len(session.date)
     + Len(session.summary) + StringsLength(session.topics)
     + (IF "key_decisions" \in DOMAIN session THEN 19 ELSE 0)
     + (IF "outcomes" \in DOMAIN session THEN 28 ELSE 0)
     + (IF "learnings" \in DOMAIN session THEN 15 ELSE 0)
     + (IF "code_changes" \in DOMAIN session THEN 107 ELSE 0)

\* convertToLazyFormat(): the lightweight fields of a session.
LightSession(session) ==
  [id |-> session.id,
   project |-> session.project,
   date |-> session.date,
   summary |-> session.summary,
   topics |-> IF "topics" \in DOMAIN session THEN session.topics ELSE <<>>]

\* convertToLazyFormat(): { ...session, _lazy_loaded, _index_size_bytes, _full_size_bytes }
FullDetails(session) ==
  [_lazy_loaded |-> TRUE,
   _index_size_bytes |-> SessionJsonLength(LightSession(session)),
   _full_size_bytes |-> SessionJsonLength(session)] @@ session

\* convertToLazyFormat(): the loop writes sessions/{id}.json for each session
\* in turn; a later write to the same path replaces the earlier one.
RECURSIVE WriteDetails(_, _)
WriteDetails(files, sessions) ==
  IF sessions = <<>> THEN files
  ELSE LET session == Head(sessions)
       IN WriteDetails((session.id :> JsonStringify(FullDetails(session))) @@ files,
                       Tail(sessions))

\* convertToLazyFormat(): the lightweight index.
LightIndex(fullIndex) ==
  [_lazy_loading_enabled |-> TRUE, _session_details_path |-> "sessions/{id}.json"]
    @@ [fullIndex EXCEPT !.sessions = [i \in 1..Len(@) |-> LightSession(@[i])]]

\* revertToFullFormat(): the session restored for an entry of the light index.
RevertSession(files, lightSession) ==
  IF lightSession.id \in DOMAIN files
    THEN Without(JsonParse(files[lightSession.id]),
                 {"_lazy_loaded", "_index_size_bytes", "_full_size_bytes"})
    ELSE lightSession

\* revertToFullFormat(): the full index.
FullIndex(lightIndex, files) ==
  Without([lightIndex EXCEPT !.sessions = [i \in 1..Len(@) |-> RevertSession(files, @[i])]],
          {"_lazy_loading_enabled", "_session_details_path"})

\* lightIndex._lazy_loading_enabled
IsLazy(index) == "_lazy_loading_enabled" \in DOMAIN index /\ index._lazy_loading_enabled

\* convertToLazyFormat(): an index without sessions is skipped, and with no
\* sessions-index.json the glob finds nothing.
ConvertToLazyFormat ==
  /\ sessionsIndex = NoFile \/ JsonParses(sessionsIndex)
  /\ IF sessionsIndex = NoFile
       THEN /\ sessLast' = [op |-> "convert", result |-> "done", original |-> <<>>]
            /\ UNCHANGED <<sessionsIndex, detailFiles>>
     ELSE LET fullIndex == JsonParse(sessionsIndex)
          IN /\ sessLast' = [op |-> "convert", result |-> "done",
                             original |-> fullIndex.sessions]
             /\ IF fullIndex.sessions = <<>>
                  THEN UNCHANGED <<sessionsIndex, detailFiles>>
                  ELSE /\ detailFiles' = WriteDetails(detailFiles, fullIndex.sessions)
                       /\ sessionsIndex' = JsonStringify(LightIndex(fullIndex))
  /\ UNCHANGED exceptSessions

\* revertToFullFormat(): an index that is not in lazy format is skipped.
RevertToFullFormat ==
  /\ sessionsIndex = NoFile \/ JsonParses(sessionsIndex)
  /\ sessLast' = [op |-> "revert", result |-> "done", original |-> <<>>]
  /\ IF sessionsIndex = NoFile
       THEN UNCHANGED sessionsIndex
     ELSE IF ~IsLazy(JsonParse(sessionsIndex))
       THEN UNCHANGED sessionsIndex
     ELSE sessionsIndex' = JsonStringify(FullIndex(JsonParse(sessionsIndex), detailFiles))
  /\ UNCHANGED detailFiles
  /\ UNCHANGED exceptSessions

-----------------------------------------------------------------------------
(* LazyLoader: session details *)

\* What loadSessionDetails(PROJECT, sessionId) did: how it ended and what it
\* returned.
DetailsLoad(sessionId, threw, returned) ==
  [id |-> sessionId, threw |-> threw, returned |-> returned]

\* The session ids loadSessionDetails() is called with.
SessionIds == {GenerateSessionId(topics) : topics \in TopicsArgs}

\* The orders in which readdirSync may list two session files.
ReaddirOrders == {order \in [1..Cardinality(SessionIds) -> SessionIds] :
                    \A i, j \in DOMAIN order : order[i] = order[j] => i = j}

\* loadSessionDetails(projectName, sessionId): {id}.msgpack when it exists,
\* else {id}.json when it exists, else null; neither decode is in a try.
LoadOutcome(packs, files, sessionId) ==
  IF sessionId \in DOMAIN packs
    THEN IF MsgpackDecodes(packs[sessionId])
           THEN DetailsLoad(sessionId, "none", MsgpackDecode(packs[sessionId]))
           ELSE DetailsLoad(sessionId, "DecodeError", JsNull)
  ELSE IF sessionId \in DOMAIN files
    THEN IF JsonParses(files[sessionId])
           THEN DetailsLoad(sessionId, "none", JsonParse(files[sessionId]))
           ELSE DetailsLoad(sessionId, "SyntaxError", JsNull)
  ELSE DetailsLoad(sessionId, "none", JsNull)

LoadSessionDetails(sessionId) ==
  /\ detailLast' = LoadOutcome(detailPacks, detailFiles, sessionId)
  /\ UNCHANGED detailPacks
  /\ UNCHANGED <<sessionVars, cacheVars, manifestVars, bloomVars, loaderVars, proVars, migrateVars, hotVars, proHotVars>>

\* convertSessionDetailsToMessagePack(): each {id}.json without an
\* {id}.msgpack is parsed and written as MessagePack, in readdir order; a
\* JSON.parse that throws ends the conversion where it is.
RECURSIVE PacksWritten(_, _, _)
PacksWritten(packs, files, ids) ==
  IF ids = <<>> THEN packs
  ELSE LET id == Head(ids)
       IN IF id \notin DOMAIN files \/ id \in DOMAIN packs
            THEN PacksWritten(packs, files, Tail(ids))
          ELSE IF ~JsonParses(files[id])
            THEN packs
          ELSE PacksWritten((id :> MsgpackEncode(JsonParse(files[id]))) @@ packs,
                            files, Tail(ids))

ConvertSessionDetailsToMessagePack ==
  /\ \E order \in ReaddirOrders : detailPacks' = PacksWritten(detailPacks, detailFiles, order)
  /\ UNCHANGED detailLast
  /\ UNCHANGED <<sessionVars, cacheVars, manifestVars, bloomVars, loaderVars, proVars, migrateVars, hotVars, proHotVars>>

\* A detail file is left with bytes its decoder rejects (a truncated or
\* overwritten file).
DetailFileDamage(ext, sessionId) ==
  /\ IF ext = "msgpack"
       THEN /\ sessionId \in DOMAIN detailPacks
            /\ detailPacks' = [detailPacks EXCEPT ![sessionId] = Garbage]
            /\ UNCHANGED detailFiles
       ELSE /\ sessionId \in DOMAIN detailFiles
            /\ detailFiles' = [detailFiles EXCEPT ![sessionId] = Garbage]
            /\ UNCHANGED detailPacks
  /\ UNCHANGED <<sessionsIndex, sessLast, detailLast>>
  /\ UNCHANGED <<cacheVars, manifestVars, bloomVars, loaderVars, proVars, migrateVars, hotVars, proHotVars>>

\* A detail file is removed.
DetailFileDelete(ext, sessionId) ==
  /\ IF ext = "msgpack"
       THEN /\ sessionId \in DOMAIN detailPacks
            /\ detailPacks' = [id \in (DOMAIN detailPacks) \ {sessionId} |-> detailPacks[id]]
            /\ UNCHANGED detailFiles
       ELSE /\ sessionId \in DOMAIN detailFiles
            /\ detailFiles' = [id \in (DOMAIN detailFiles) \ {sessionId} |-> detailFiles[id]]
            /\ UNCHANGED detailPacks
  /\ UNCHANGED <<sessionsIndex, sessLast, detailLast>>
  /\ UNCHANGED <<cacheVars, manifestVars, bloomVars, loaderVars, proVars, migrateVars, hotVars, proHotVars>>

DetailsNext ==
  \/ \E s \in Summaries, t \in TopicsArgs : SaveSession(s, t, FALSE)
  \/ ConvertToLazyFormat
  \/ ConvertSessionDetailsToMessagePack
  \/ \E id \in SessionIds : LoadSessionDetails(id)
  \/ \E ext \in {"msgpack", "json"}, id \in SessionIds : DetailFileDamage(ext, id)
  \/ \E ext \in {"msgpack", "json"}, id \in SessionIds : DetailFileDelete(ext, id)

-----------------------------------------------------------------------------
(* MessagePackMigration (migrate-to-msgpack.js) *)

\* A file under MEMEX_PATH that the tool can meet: index.*, the project's
\* sessions-index.* and sessions/{id}.*.
FilePath(at, id, ext) == [at |-> at, id |-> id, ext |-> ext]

AllPaths ==
  {FilePath(at, <<>>, ext) : at \in {"index", "sessions-index"}, ext \in {"json", "msgpack"}}
    \cup {FilePath("sessions", id, ext) : id \in SessionIds, ext \in {"json", "msgpack"}}

\* The files as the tool finds them: path -> file, NoFile where there is none.
Tree ==
  [p \in AllPaths |->
     CASE p.at = "index" -> indexFiles[p.ext]
       [] p.at = "sessions-index" -> IF p.ext = "json" THEN sessionsIndex ELSE sessionsPack
       [] p.at = "sessions" ->
            LET files == IF p.ext = "json" THEN detailFiles ELSE detailPacks
            IN IF p.id \in DOMAIN files THEN files[p.id] ELSE NoFile]

\* jsonPath.replace(/\.json$/, '.msgpack')
MsgpackPath(jsonPath) == [jsonPath EXCEPT !.ext = "msgpack"]

\* convertFile(jsonPath): how it ends.
ConvertResult(tree, jsonPath) ==
  IF tree[MsgpackPath(jsonPath)] # NoFile THEN "skipped"
  ELSE IF ~JsonParses(tree[jsonPath]) THEN "failed"
  ELSE "converted"

\* convertFile(jsonPath): the files it leaves.
ConvertFile(tree, jsonPath, dryRun) ==
  IF ConvertResult(tree, jsonPath) = "converted" /\ ~dryRun
    THEN [tree EXCEPT ![MsgpackPath(jsonPath)] = MsgpackEncode(JsonParse(tree[jsonPath]))]
    ELSE tree

\* findJsonFiles(): the files the four glob patterns match.
FindJsonFiles(tree) == {p \in DOMAIN tree : p.ext = "json" /\ tree[p] # NoFile}

\* migrate(): convertFile() on each file found.
RECURSIVE MigrateTree(_, _, _)
MigrateTree(tree, jsonFiles, dryRun) ==
  IF jsonFiles = {} THEN tree
  ELSE LET jsonPath == CHOOSE p \in jsonFiles : TRUE
       IN MigrateTree(ConvertFile(tree, jsonPath, dryRun), jsonFiles \ {jsonPath}, dryRun)

\* rollback(): glob('**/*.msgpack').
MsgpackFilesAll(tree) == {p \in DOMAIN tree : tree[p] # NoFile}

MsgpackFiles(tree) == {p \in DOMAIN tree : p.ext = "msgpack" /\ tree[p] # NoFile}

\* rollback(): fs.unlinkSync() on each file found, unless it is a dry run.
RollbackTree(tree, dryRun) ==
  IF dryRun THEN tree
  ELSE [p \in DOMAIN tree |-> IF p \in MsgpackFiles(tree) THEN NoFile ELSE tree[p]]

\* The files are as in `tree` after the step.
TreeWritten(tree) ==
  /\ indexFiles' = [indexFiles EXCEPT
                      !["json"] = tree[FilePath("index", <<>>, "json")],
                      !["msgpack"] = tree[FilePath("index", <<>>, "msgpack")]]
  /\ sessionsIndex' = tree[FilePath("sessions-index", <<>>, "json")]
  /\ sessionsPack' = tree[FilePath("sessions-index", <<>>, "msgpack")]
  /\ detailFiles' = [id \in {i \in SessionIds : tree[FilePath("sessions", i, "json")] # NoFile}
                       |-> tree[FilePath("sessions", id, "json")]]
  /\ detailPacks' = [id \in {i \in SessionIds : tree[FilePath("sessions", i, "msgpack")] # NoFile}
                       |-> tree[FilePath("sessions", id, "msgpack")]]

\* new MessagePackMigration({ dryRun }).migrate(); files_skipped is counted
\* by convertFile() and again by migrate().
Migrate(dryRun) ==
  /\ TreeWritten(MigrateTree(Tree, FindJsonFiles(Tree), dryRun))
  /\ migrateLast' =
       [op |-> "migrate", dryRun |-> dryRun,
        files_converted |->
          Cardinality({p \in FindJsonFiles(Tree) : ConvertResult(Tree, p) = "converted"}),
        files_skipped |->
          2 * Cardinality({p \in FindJsonFiles(Tree) : ConvertResult(Tree, p) = "skipped"}),
        files_failed |->
          Cardinality({p \in FindJsonFiles(Tree) : ConvertResult(Tree, p) = "failed"})]
  /\ UNCHANGED <<sessLast, detailLast, memexIndex, loadLast, searchLast>>
  /\ UNCHANGED <<cacheVars, manifestVars, bloomVars, proVars, hotVars, proHotVars>>

\* new MessagePackMigration({ dryRun }).rollback()
Rollback(dryRun) ==
  /\ TreeWritten(RollbackTree(Tree, dryRun))
  /\ migrateLast' =
       [op |-> "rollback", dryRun |-> dryRun,
        files_converted |-> 0, files_skipped |-> 0,
        files_failed |-> 0]
  /\ UNCHANGED <<sessLast, detailLast, memexIndex, loadLast, searchLast>>
  /\ UNCHANGED <<cacheVars, manifestVars, bloomVars, proVars, hotVars, proHotVars>>

MigrateInit ==
  /\ sessionsPack = NoFile
  /\ migrateLast = [op |-> "none", dryRun |-> FALSE,
                    files_converted |-> 0, files_skipped |-> 0, files_failed |-> 0]

-----------------------------------------------------------------------------
(* buildMemexBloomFilter *)

\* The keywords of a summary: its lower-cased words longer than three characters.
SummaryWords(summary) ==
  {w \in Elements(SplitWhitespace(ToLowerCase(summary))) : Len(w) > 3}

\* The terms one session contributes: its id, its topics, the keywords of its
\* summary and its project; an empty string is falsy and contributes nothing.
SessionTerms(session) ==
  {session.id}
    \cup (IF "topics" \in DOMAIN session THEN Elements(session.topics) ELSE {})
    \cup (IF session.summary # <<>> THEN SummaryWords(session.summary) ELSE {})
    \cup (IF session.project # <<>> THEN {session.project} ELSE {})

\* The Set of terms collected from the sessions index on disk.
Terms(file) ==
  IF file = NoFile THEN {}
  ELSE UNION {SessionTerms(s) : s \in Elements(JsonParse(file).sessions)}

\* The filter the build makes: sized for twice the terms, every term added.
BuiltFilter(file) == AddAll(NewBloomFilter(Cardinality(Terms(file)) * 2), Terms(file))

\* buildMemexBloomFilter()
BuildMemexBloomFilter ==
  /\ sessionsIndex = NoFile \/ JsonParses(sessionsIndex)
  /\ bloomFile' = StringifyFilter(BuiltFilter(sessionsIndex))
  /\ bloomSaved' = Terms(sessionsIndex)
  /\ bloomLast' = BloomCalled("build", <<>>, FALSE)
  /\ UNCHANGED <<filter, bloomAdded>>
  /\ UNCHANGED exceptBloom

SessionsInit ==
  /\ sessionsIndex = NoFile
  /\ detailFiles = [id \in {} |-> NoFile]
  /\ sessLast = [op |-> "none", result |-> "done", original |-> <<>>]
  /\ detailPacks = [id \in {} |-> NoFile]
  /\ detailLast = DetailsLoad(<<>>, "none", JsNull)

SessionsNext ==
  \/ \E s \in Summaries, t \in TopicsArgs, git \in BOOLEAN : SaveSession(s, t, git)
  \/ ConvertToLazyFormat
  \/ RevertToFullFormat
  \/ BuildMemexBloomFilter

-----------------------------------------------------------------------------
(* Memex: loadIndex and search *)

\* The representations of the index, in the order loadIndex() tries them.
IndexFormats == <<"msgpack", "gzip", "json">>

\* The index contents found on disk.
IndexDocs == {IndexDoc(0), IndexDoc(1)}

\* gzip of a file; gunzipSync throws on anything else.
Gzip(f) == [fmt |-> "gzip", content |-> f]
Gunzips(f) == f.fmt = "gzip"
Gunzip(f) == f.content

\* The file that holds `doc` in a representation.
Encoded(fmt, doc) ==
  CASE fmt = "msgpack" -> MsgpackEncode(doc)
    [] fmt = "gzip" -> Gzip(JsonStringify(doc))
    [] fmt = "json" -> JsonStringify(doc)

\* Whether the representation's decoder accepts the file, and what it gives.
Decodes(fmt, f) ==
  CASE fmt = "msgpack" -> MsgpackDecodes(f)
    [] fmt = "gzip" -> Gunzips(f) /\ JsonParses(Gunzip(f))
    [] fmt = "json" -> JsonParses(f)
Decoded(fmt, f) ==
  CASE fmt = "msgpack" -> MsgpackDecode(f)
    [] fmt = "gzip" -> JsonParse(Gunzip(f))
    [] fmt = "json" -> JsonParse(f)

\* There is no Memex object.
NoMemex == [kind |-> "none"]

\* What loadIndex() did: how it ended, its format and from_cache, the index it
\* left in this.index and the representations it read.
IndexLoad(threw, format, fromCache, index, tried) ==
  [threw |-> threw, format |-> format, from_cache |-> fromCache,
   index |-> index, tried |-> tried]

\* new Memex(): this.index = null and a PersistentCache of version 3.1.0 with
\* a ttl of 60 minutes, whose constructor runs cleanup().
MemexNew ==
  /\ memexIndex' = JsNull
  /\ inst' = Construct(<<"3.1.0">>, <<60 * 60 * 1000>>, Null)
  /\ table' = CleanupRows(table, now)
  /\ cacheLast' = Called("open", "", "", NoResult, {})
  /\ readRows' = readRows \cap DOMAIN table'
  /\ hot' = <<>>
  /\ UNCHANGED <<now, indexFiles, loadLast, searchLast, hotLast>>
  /\ UNCHANGED <<manifestVars, bloomVars, sessionVars, detailVars, proVars, migrateVars, proHotVars>>

\* loadIndex(), after a cache miss: this.index after each representation.
\* A representation is read when its file exists and, for gzip and JSON, when
\* this.index is still falsy.
AfterMsgpack(index) ==
  LET f == indexFiles["msgpack"]
  IN IF f # NoFile /\ Decodes("msgpack", f)
       THEN [index |-> Decoded("msgpack", f), format |-> "msgpack", tried |-> {"msgpack"}]
       ELSE [index |-> index, format |-> "none",
             tried |-> IF f # NoFile THEN {"msgpack"} ELSE {}]

AfterGzip(s) ==
  LET f == indexFiles["gzip"]
  IN IF s.index = JsNull /\ f # NoFile
       THEN IF Decodes("gzip", f)
              THEN [index |-> Decoded("gzip", f), format |-> "gzip",
                    tried |-> s.tried \cup {"gzip"}]
              ELSE [s EXCEPT !.tried = @ \cup {"gzip"}]
       ELSE s

\* loadIndex()
LoadIndex ==
  /\ memexIndex # NoMemex
  /\ LET cached == GetOutcome(table, "index", inst.version, now)
         s == AfterGzip(AfterMsgpack(memexIndex))
         json == indexFiles["json"]
         readsJson == s.index = JsNull /\ json # NoFile
     IN IF cached.result # Miss
          THEN /\ memexIndex' = cached.result.value
               /\ table' = cached.table
               /\ cacheLast' = Called("get", "index", cached.path, cached.result, {})
               /\ loadLast' = IndexLoad("none", "cache", TRUE, cached.result.value, {})
        ELSE IF readsJson /\ ~Decodes("json", json)
          THEN \* JSON.parse throws out of loadIndex()
               /\ memexIndex' = s.index
               /\ table' = cached.table
               /\ cacheLast' = Called("get", "index", cached.path, cached.result, {})
               /\ loadLast' = IndexLoad("SyntaxError", s.format, FALSE, s.index,
                                          s.tried \cup {"json"})
        ELSE IF ~readsJson /\ s.index = JsNull
          THEN \* throw new Error('Memex index not found ...')
               /\ memexIndex' = s.index
               /\ table' = cached.table
               /\ cacheLast' = Called("get", "index", cached.path, cached.result, {})
               /\ loadLast' = IndexLoad("NotFound", s.format, FALSE, s.index, s.tried)
        ELSE LET index == IF readsJson THEN Decoded("json", json) ELSE s.index
                 format == IF readsJson THEN "json" ELSE s.format
                 tried == IF readsJson THEN s.tried \cup {"json"} ELSE s.tried
             IN /\ memexIndex' = index
                /\ \E o \in SetOutcomes(cached.table, "index", index, Null) :
                     /\ table' = o.table
                     /\ cacheLast' = Called("set", "index", "", NoResult, o.evicted)
                /\ loadLast' = IndexLoad("none", format, FALSE, index, tried)
  /\ readRows' = (IF cacheLast'.path = "hit" THEN readRows \cup {"index"} ELSE readRows)
                    \cap DOMAIN table'
  /\ UNCHANGED <<now, inst, indexFiles, searchLast>>
  /\ UNCHANGED <<manifestVars, bloomVars, sessionVars, detailVars, proVars, migrateVars, hotVars, proHotVars>>

\* new Memex() when the cache database cannot be opened (new Database(...) or
\* db.exec throws in initializeDatabase): the constructor has no try, the
\* error leaves it and no Memex object exists.
MemexNewFailing ==
  /\ memexIndex' = NoMemex
  /\ loadLast' = IndexLoad("SqliteError", "none", FALSE, JsNull, {})
  /\ UNCHANGED <<indexFiles, searchLast>>
  /\ UNCHANGED <<cacheVars, manifestVars, bloomVars, sessionVars, detailVars, proVars, migrateVars, hotVars, proHotVars>>

\* loadIndex() when a statement on the cache database throws (the file became
\* unreadable or locked after the constructor): persistentCache.get() at the
\* start, before any file is read, or persistentCache.set() at the end, after
\* this.index is assigned. Neither call is in a try.
LoadIndexFailing(call) ==
  /\ memexIndex # NoMemex
  /\ LET cached == GetOutcome(table, "index", inst.version, now)
         s == AfterGzip(AfterMsgpack(memexIndex))
         json == indexFiles["json"]
         readsJson == s.index = JsNull /\ json # NoFile
     IN IF call = "get"
          THEN /\ memexIndex' = memexIndex
               /\ loadLast' = IndexLoad("SqliteError", "none", FALSE, memexIndex, {})
               /\ UNCHANGED <<table, cacheLast, readRows>>
          ELSE /\ cached.result = Miss
               /\ ~(readsJson /\ ~Decodes("json", json))
               /\ ~(~readsJson /\ s.index = JsNull)
               /\ memexIndex' = (IF readsJson THEN Decoded("json", json) ELSE s.index)
               /\ loadLast' = IndexLoad("SqliteError",
                                        IF readsJson THEN "json" ELSE s.format, FALSE,
                                        memexIndex',
                                        IF readsJson THEN s.tried \cup {"json"} ELSE s.tried)
               /\ table' = cached.table
               /\ cacheLast' = Called("get", "index", cached.path, cached.result, {})
               /\ readRows' = readRows \cap DOMAIN table'
  /\ UNCHANGED <<now, inst, indexFiles, searchLast>>
  /\ UNCHANGED <<manifestVars, bloomVars, sessionVars, detailVars, proVars, migrateVars, hotVars, proHotVars>>

\* search(query): the matches among the index's topics and projects. The array
\* holds each match once; it is modelled as a set.
SearchResults(index, query) ==
  LET lowerQuery == ToLowerCase(query)
  IN {[type |-> "topic", topic |-> topic,
       projects |-> index.t[topic].p, session_count |-> index.t[topic].sc] :
        topic \in {k \in DOMAIN index.t : Includes(k, lowerQuery)}}
     \cup
     {[type |-> "project", project |-> name,
       description |-> index.p[name].d, quick_ref |-> index.p[name].qr] :
        name \in {n \in DOMAIN index.p :
                    \/ Includes(ToLowerCase(n), lowerQuery)
                    \/ Includes(ToLowerCase(index.p[n].d), lowerQuery)
                    \/ \E i \in DOMAIN index.p[n].tp : Includes(index.p[n].tp[i], lowerQuery)}}

\* search(query): it reads this.index and nothing else, and returns the array
\* of matches; on a Memex whose index is not loaded, this.index.t throws.
Search(query) ==
  /\ memexIndex # NoMemex
  /\ searchLast' =
       IF memexIndex = JsNull
         THEN [query |-> query, threw |-> "TypeError", read |-> {"index"},
               returned |-> JsNull]
         ELSE [query |-> query, threw |-> "none", read |-> {"index"},
               returned |-> [kind |-> "array",
                             items |-> SearchResults(memexIndex, query)]]
  /\ UNCHANGED <<indexFiles, memexIndex, loadLast>>
  /\ UNCHANGED <<cacheVars, manifestVars, bloomVars, sessionVars, detailVars, proVars, migrateVars, hotVars, proHotVars>>

\* One of the index files is written, whole or damaged, outside the loader.
IndexFileWrite(fmt, file) ==
  /\ indexFiles' = [indexFiles EXCEPT ![fmt] = file]
  /\ UNCHANGED <<memexIndex, loadLast, searchLast>>
  /\ UNCHANGED <<cacheVars, manifestVars, bloomVars, sessionVars, detailVars, proVars, migrateVars, hotVars, proHotVars>>

\* One of the index files is removed.
IndexFileDelete(fmt) ==
  /\ indexFiles[fmt] # NoFile
  /\ indexFiles' = [indexFiles EXCEPT ![fmt] = NoFile]
  /\ UNCHANGED <<memexIndex, loadLast, searchLast>>
  /\ UNCHANGED <<cacheVars, manifestVars, bloomVars, sessionVars, detailVars, proVars, migrateVars, hotVars, proHotVars>>

\* The queries of search() and of the bloom filter check.
Queries == {<<"a", "p", "i">>, <<"f", "i", "x">>, <<"a", "u", "t", "h">>, <<"d", "o", "c", "k">>, <<"d", "o", "c", "k", "e", "r">>, <<"r", "e", "d", "i", "s">>}

LoaderInit ==
  /\ indexFiles = [fmt \in Elements(IndexFormats) |->
                     IF fmt = "json" THEN JsonStringify(IndexDoc(0)) ELSE NoFile]
  /\ memexIndex = NoMemex
  /\ loadLast = IndexLoad("none", "none", FALSE, JsNull, {})
  /\ searchLast = [query |-> <<>>, threw |-> "none", read |-> {}, returned |-> JsNull]

LoaderNext ==
  \/ MemexNew
  \/ LoadIndex
  \/ \E fmt \in Elements(IndexFormats), doc \in IndexDocs : IndexFileWrite(fmt, Encoded(fmt, doc))
  \/ \E fmt \in Elements(IndexFormats) : IndexFileWrite(fmt, Garbage)
  \/ \E fmt \in Elements(IndexFormats) : IndexFileDelete(fmt)
  \/ CacheClear

\* The loader beside an unreachable cache database.
LoaderFaultsNext ==
  \/ MemexNew
  \/ MemexNewFailing
  \/ LoadIndex
  \/ \E call \in {"get", "set"} : LoadIndexFailing(call)
  \/ \E fmt \in Elements(IndexFormats), doc \in IndexDocs : IndexFileWrite(fmt, Encoded(fmt, doc))
  \/ \E fmt \in Elements(IndexFormats) : IndexFileDelete(fmt)

SearchNext ==
  \/ \E s \in Summaries, t \in TopicsArgs : SaveSession(s, t, FALSE)
  \/ BuildMemexBloomFilter
  \/ MemexNew
  \/ LoadIndex
  \/ \E q \in Queries : Search(q)

-----------------------------------------------------------------------------
(* MemexPro (memex-loader-v3.js): loadIndex *)

\* What MemexPro.loadIndex() did: how it ended, the index it left in
\* this.index and the files it read.
ProLoad(threw, index, read) == [threw |-> threw, index |-> index, read |-> read]

\* new MemexPro(): this.index = null, compressionEnabled = true.
MemexProNew ==
  /\ proIndex' = JsNull
  /\ proHot' = <<>>
  /\ proHotUsed' = <<>>
  /\ UNCHANGED <<proLast, proSearch, proHotLast>>
  /\ UNCHANGED <<cacheVars, manifestVars, bloomVars, sessionVars, loaderVars, detailVars, migrateVars, hotVars>>

\* loadIndex(): this.index when it is set; else index.json must exist; then
\* index.json.gz when it exists, else index.json, and any error of the read
\* is rethrown as 'Failed to load index'.
ProLoadOutcome(index, files) ==
  IF index # JsNull
    THEN ProLoad("none", index, {})
  ELSE IF files["json"] = NoFile
    THEN ProLoad("NotFound", index, {})
  ELSE IF files["gzip"] # NoFile
    THEN IF Decodes("gzip", files["gzip"])
           THEN ProLoad("none", Decoded("gzip", files["gzip"]), {"gzip"})
           ELSE ProLoad("FailedToLoad", index, {"gzip"})
  ELSE IF Decodes("json", files["json"])
    THEN ProLoad("none", Decoded("json", files["json"]), {"json"})
  ELSE ProLoad("FailedToLoad", index, {"json"})

ProLoadIndex ==
  /\ proIndex # NoMemex
  /\ proLast' = ProLoadOutcome(proIndex, indexFiles)
  /\ proIndex' = proLast'.index
  /\ UNCHANGED proSearch
  /\ UNCHANGED <<cacheVars, manifestVars, bloomVars, sessionVars, loaderVars, detailVars, migrateVars, hotVars, proHotVars>>

\* What MemexPro.search(query) did: how it ended and the array it returned.
ProSearched(query, threw, results) == [query |-> query, threw |-> threw, results |-> results]

\* lowerQuery.split(/\s+/).filter(w => w.length > 2)
QueryWords(query) ==
  SelectSeq(SplitWhitespace(ToLowerCase(query)), LAMBDA w : Len(w) > 2)

\* Whether new RegExp(word) matches text at position i, for words of letters,
\* digits, "-" and ".": a "." matches any character but a line break.
RegExpAt(text, i, word) ==
  /\ i + Len(word) - 1 <= Len(text)
  /\ \A j \in 1..Len(word) :
       IF word[j] = "." THEN text[i + j - 1] # "\n" ELSE word[j] = text[i + j - 1]

\* (text.match(new RegExp(word, 'g')) || []).length: the matches from position
\* i on, read left to right, each one starting after the one before it ends.
RECURSIVE MatchCount(_, _, _)
MatchCount(text, word, i) ==
  IF i + Len(word) - 1 > Len(text) THEN 0
  ELSE IF RegExpAt(text, i, word) THEN 1 + MatchCount(text, word, i + Len(word))
  ELSE MatchCount(text, word, i + 1)

\* calculateRelevance(text, queryWords)
RECURSIVE CalculateRelevance(_, _)
CalculateRelevance(text, queryWords) ==
  IF queryWords = <<>> THEN 0
  ELSE MatchCount(text, Head(queryWords), 1) * Len(Head(queryWords))
         + CalculateRelevance(text, Tail(queryWords))

\* array.join(' ')
RECURSIVE JoinSpace(_)
JoinSpace(array) ==
  IF array = <<>> THEN <<>>
  ELSE IF Len(array) = 1 THEN array[1]
  ELSE array[1] \o <<" ">> \o JoinSpace(Tail(array))

\* `${projectName} ${project.d || ''} ${project.tp?.join(' ') || ''}`.toLowerCase()
SearchableText(index, projectName) ==
  ToLowerCase(projectName \o <<" ">> \o index.p[projectName].d \o <<" ">>
                \o JoinSpace(index.p[projectName].tp))

\* The matches search() pushes: topics whose key includes a query word, then
\* projects whose searchable text includes one.
ProMatches(index, query) ==
  LET queryWords == QueryWords(query)
  IN {[type |-> "topic", topic |-> topic,
       projects |-> index.t[topic].p, session_count |-> index.t[topic].sc,
       relevance |-> CalculateRelevance(topic, queryWords)] :
        topic \in {k \in DOMAIN index.t :
                     \E i \in DOMAIN queryWords : Includes(k, queryWords[i])}}
     \cup
     {[type |-> "project", project |-> name,
       description |-> index.p[name].d, quick_ref |-> index.p[name].qr,
       relevance |-> CalculateRelevance(SearchableText(index, name), queryWords)] :
        name \in {n \in DOMAIN index.p :
                    \E i \in DOMAIN queryWords :
                      Includes(SearchableText(index, n), queryWords[i])}}

\* results.sort((a, b) => (b.relevance || 0) - (a.relevance || 0)): the sort
\* is stable, topics are pushed before projects, and the topics come in the
\* key order of the index object, which the model leaves open.
ProSearchResults(index, query) ==
  LET matches == ProMatches(index, query)
  IN {seq \in [1..Cardinality(matches) -> matches] :
        /\ \A m \in matches : \E i \in DOMAIN seq : seq[i] = m
        /\ \A i, j \in DOMAIN seq :
             i < j => /\ seq[i].relevance >= seq[j].relevance
                      /\ (seq[i].relevance = seq[j].relevance
                            => ~(seq[i].type = "project" /\ seq[j].type = "topic"))}

\* search(query): `this.index.t` on a null index is a TypeError.
ProSearch(query) ==
  /\ proIndex # NoMemex
  /\ IF proIndex = JsNull
       THEN proSearch' = ProSearched(query, "TypeError", <<>>)
       ELSE \E results \in ProSearchResults(proIndex, query) :
              proSearch' = ProSearched(query, "none", results)
  /\ UNCHANGED <<proIndex, proLast>>
  /\ UNCHANGED <<cacheVars, manifestVars, bloomVars, sessionVars, loaderVars, detailVars, migrateVars, hotVars, proHotVars>>

\* The queries of MemexPro.search().
ProQueries ==
  {<<"d", "o", "c", "k", "e", "r">>,
   <<"A", "u", "t", "h", " ", "a", ".", "t", "h", " ", "d", "o", "c", "k", "e", "r">>,
   <<"b", "a", "s", "e", " ", " ", "a", "u", "t", "h">>,
   <<"g", "o", " ", "a", "p", "i">>}

ProInit ==
  /\ proIndex = NoMemex
  /\ proLast = ProLoad("none", JsNull, {})
  /\ proSearch = ProSearched(<<>>, "none", <<>>)

\* The migration tool beside the operations that write the JSON files.
MigrateNext ==
  \/ \E s \in Summaries, t \in TopicsArgs : SaveSession(s, t, FALSE)
  \/ ConvertToLazyFormat
  \/ ConvertSessionDetailsToMessagePack
  \/ \E dryRun \in BOOLEAN : Migrate(dryRun)
  \/ \E dryRun \in BOOLEAN : Rollback(dryRun)

-----------------------------------------------------------------------------
(* The hot caches of Memex and MemexPro *)

\* The files under MEMEX_PATH that loadContent() is asked for, in the order a
\* caller first asks for them, and a path with no file behind it.
ContentPaths ==
  <<"content/01.md", "content/02.md", "content/03.md", "content/04.md",
    "content/05.md", "content/06.md", "content/07.md", "content/08.md",
    "content/09.md", "content/10.md">>
MissingPath == "content/none.md"

\* `project:${projectName}` for the one project of the index.
ProjectKey == "project:Memex"

\* The paths a caller asks for next: the first path again, the first path
\* that is not cached, or the path without a file.
Requests(cache) ==
  {ContentPaths[1]}
    \cup {ContentPaths[i] : i \in {j \in DOMAIN ContentPaths :
                                     /\ ContentPaths[j] \notin Elements(cache)
                                     /\ \A k \in 1..(j - 1) : ContentPaths[k] \in Elements(cache)}}
    \cup {MissingPath}

\* What a call on a hot cache did: the key, how it ended and the key it removed.
HotCalled(op, key, path, evicted) == [op |-> op, key |-> key, path |-> path, evicted |-> evicted]

\* Map.delete(key) and Map.set(key, value) on the keys in insertion order: a
\* key that is set again keeps its place.
MapDelete(cache, key) == SelectSeq(cache, LAMBDA k : k # key)
MapSet(cache, key) == IF key \in Elements(cache) THEN cache ELSE Append(cache, key)

\* Memex.loadProjectMetadata(projectName): the metadata file of the project
\* exists; the metadata is put in the hot cache and nothing is removed.
LoadProjectMetadata ==
  /\ memexIndex \notin {NoMemex, JsNull}
  /\ PROJECT \in DOMAIN memexIndex.p
  /\ hot' = MapSet(hot, ProjectKey)
  /\ hotLast' = HotCalled("loadProjectMetadata", ProjectKey, "loaded", {})
  /\ UNCHANGED <<indexFiles, memexIndex, loadLast, searchLast>>
  /\ UNCHANGED <<cacheVars, manifestVars, bloomVars, sessionVars, detailVars, proVars, migrateVars, proHotVars>>

\* Memex.loadContent(filePath): null without a file, the cached content on a
\* hit; else the content is cached and, when the cache then holds more than
\* 10 entries, its first key is deleted.
LoadContent(filePath) ==
  /\ memexIndex # NoMemex
  /\ IF filePath \notin Elements(ContentPaths)
       THEN /\ hot' = hot
            /\ hotLast' = HotCalled("loadContent", filePath, "absent", {})
     ELSE IF filePath \in Elements(hot)
       THEN /\ hot' = hot
            /\ hotLast' = HotCalled("loadContent", filePath, "hit", {})
     ELSE LET added == MapSet(hot, filePath)
          IN IF Len(added) > HOT_CACHE_LIMIT
               THEN /\ hot' = MapDelete(added, Head(added))
                    /\ hotLast' = HotCalled("loadContent", filePath, "loaded", {Head(added)})
               ELSE /\ hot' = added
                    /\ hotLast' = HotCalled("loadContent", filePath, "loaded", {})
  /\ UNCHANGED <<indexFiles, memexIndex, loadLast, searchLast>>
  /\ UNCHANGED <<cacheVars, manifestVars, bloomVars, sessionVars, detailVars, proVars, migrateVars, proHotVars>>

HotInit ==
  /\ hot = <<>>
  /\ hotLast = HotCalled("none", "", "", {})

\* Memex with its hot cache.
HotNext ==
  \/ MemexNew
  \/ LoadIndex
  \/ LoadProjectMetadata
  \/ \E filePath \in Requests(hot) : LoadContent(filePath)

\* MemexPro.addToHotCache(key, value)
AddToHotCache(cache, key) ==
  MapSet(IF Len(cache) >= PRO_HOT_CACHE_LIMIT THEN MapDelete(cache, Head(cache)) ELSE cache,
         key)

\* The key addToHotCache(key, value) removes, if any.
HotEvicted(cache) == IF Len(cache) >= PRO_HOT_CACHE_LIMIT THEN {Head(cache)} ELSE {}

\* The keys by recency once `key` has been inserted or hit and `evicted` removed.
Used(used, key, evicted) ==
  Append(SelectSeq(used, LAMBDA k : k # key /\ k \notin evicted), key)

\* A lookup of `key` in MemexPro's hot cache, followed on a miss by
\* addToHotCache(key, value).
ProHotLookup(op, key) ==
  IF key \in Elements(proHot)
    THEN /\ proHot' = proHot
         /\ proHotUsed' = Used(proHotUsed, key, {})
         /\ proHotLast' = HotCalled(op, key, "hit", {})
    ELSE /\ proHot' = AddToHotCache(proHot, key)
         /\ proHotUsed' = Used(proHotUsed, key, HotEvicted(proHot))
         /\ proHotLast' = HotCalled(op, key, "loaded", HotEvicted(proHot))

\* MemexPro.loadProjectMetadata(projectName), the metadata file being there.
ProLoadProjectMetadata ==
  /\ proIndex \notin {NoMemex, JsNull}
  /\ PROJECT \in DOMAIN proIndex.p
  /\ ProHotLookup("loadProjectMetadata", ProjectKey)
  /\ UNCHANGED proVars
  /\ UNCHANGED <<cacheVars, manifestVars, bloomVars, sessionVars, loaderVars, detailVars, migrateVars, hotVars>>

\* MemexPro.loadContent(filePath)
ProLoadContent(filePath) ==
  /\ proIndex # NoMemex
  /\ IF filePath \notin Elements(ContentPaths)
       THEN /\ proHotLast' = HotCalled("loadContent", filePath, "absent", {})
            /\ UNCHANGED <<proHot, proHotUsed>>
       ELSE ProHotLookup("loadContent", filePath)
  /\ UNCHANGED proVars
  /\ UNCHANGED <<cacheVars, manifestVars, bloomVars, sessionVars, loaderVars, detailVars, migrateVars, hotVars>>

ProHotInit ==
  /\ proHot = <<>>
  /\ proHotUsed = <<>>
  /\ proHotLast = HotCalled("none", "", "", {})

\* MemexPro with its hot cache.
ProHotNext ==
  \/ MemexProNew
  \/ ProLoadIndex
  \/ ProLoadProjectMetadata
  \/ \E filePath \in Requests(proHot) : ProLoadContent(filePath)

ProNext ==
  \/ MemexProNew
  \/ ProLoadIndex
  \/ \E fmt \in {"gzip", "json"}, doc \in IndexDocs : IndexFileWrite(fmt, Encoded(fmt, doc))
  \/ \E fmt \in {"gzip", "json"} : IndexFileWrite(fmt, Garbage)
  \/ \E fmt \in {"gzip", "json"} : IndexFileDelete(fmt)

\* The v3 loader with its search.
ProSearchNext ==
  \/ MemexProNew
  \/ ProLoadIndex
  \/ \E q \in ProQueries : ProSearch(q)
  \/ \E fmt \in {"gzip", "json"}, doc \in IndexDocs : IndexFileWrite(fmt, Encoded(fmt, doc))

-----------------------------------------------------------------------------
(* Specifications *)

Init ==
  /\ CacheInit /\ ManifestInit /\ BloomInit /\ SessionsInit /\ LoaderInit /\ ProInit
  /\ MigrateInit /\ HotInit /\ ProHotInit

SpecCache == Init /\ [][CacheNext]_vars

SpecManifest == Init /\ [][ManifestNext]_vars

SpecBloom == Init /\ [][BloomNext]_vars

SpecBloomRoundTrip == Init /\ [][BloomRoundTripNext]_vars

SpecBloomFiles == Init /\ [][BloomFilesNext]_vars

SpecSessions == Init /\ [][SessionsNext]_vars

SpecLoader == Init /\ [][LoaderNext]_vars

SpecDetails == Init /\ [][DetailsNext]_vars

SpecMigrate == Init /\ [][MigrateNext]_vars

SpecHot == Init /\ [][HotNext]_vars

SpecProHot == Init /\ [][ProHotNext]_vars

SpecPro == Init /\ [][ProNext]_vars

SpecProSearch == Init /\ [][ProSearchNext]_vars

SpecManifestFaults == Init /\ [][ManifestFaultsNext]_vars

SpecIndexUpdate == Init /\ [][IndexUpdateNext]_vars

SpecManifestCli == Init /\ [][ManifestCliNext]_vars

SpecCacheCorrupt == Init /\ [][CacheCorruptNext]_vars

SpecLoaderFaults == Init /\ [][LoaderFaultsNext]_vars

SpecCacheCrash == Init /\ [][CacheCrashNext]_vars

SpecCacheCleanup == Init /\ [][CacheCleanupNext]_vars

SpecSearch == Init /\ [][SearchNext]_vars

-----------------------------------------------------------------------------
(* Claims about PersistentCache, checked under SpecCache *)

\* A step that is a call of the cache (every action but Tick is one, and each
\* records itself in cacheLast).
CacheCall == now' = now /\ vars' # vars
SetStep(k) == CacheCall /\ cacheLast'.op = "set" /\ cacheLast'.key = k
GetStep(k) == CacheCall /\ cacheLast'.op = "get" /\ cacheLast'.key = k

\* The table holds at least maxEntries rows and `key` has none: set() evicts.
AtCapacityFor(key) ==
  key \notin DOMAIN table /\ Cardinality(DOMAIN table) >= inst.maxEntries

\* C1, as stated: get(key) returns null whenever the row's expires_at is at or
\* before the current time (now >= expires_at) or its version differs from the
\* instance's version.
C1_AsStated ==
  [][\A k \in DOMAIN table :
       (GetStep(k) /\ (now >= table[k].expires_at \/ table[k].version # inst.version))
       => cacheLast'.result = Miss]_vars

\* C1, amended: get(key) returns null whenever the current time is past the
\* row's expires_at (now > expires_at) or the row's version differs from the
\* instance's version; at now = expires_at the row is still served.
C1_GetMissesLogicallyAbsent ==
  [][\A k \in DOMAIN table :
       (GetStep(k) /\ (now > table[k].expires_at \/ table[k].version # inst.version))
       => cacheLast'.result = Miss]_vars

\* A get() has just missed on a row that was physically present but expired.
C1_Witness ==
  /\ cacheLast.op = "get"
  /\ cacheLast.path = "expired"
  /\ cacheLast.result = Miss

\* C2: a set() of a key with no row, on a table holding maxEntries rows (or
\* more), deletes exactly one row, one of smallest last_accessed_at, and keeps
\* every other row as it was; any other set() deletes no row.
C2_EvictsExactlyTheLru ==
  [][\A k \in Keys :
       SetStep(k) =>
         IF AtCapacityFor(k)
           THEN \E e \in DOMAIN table :
                  /\ DOMAIN table' = ((DOMAIN table) \ {e}) \cup {k}
                  /\ \A j \in DOMAIN table :
                       table[e].last_accessed_at <= table[j].last_accessed_at
                  /\ \A j \in (DOMAIN table) \ {e} : table'[j] = table[j]
           ELSE /\ DOMAIN table' = (DOMAIN table) \cup {k}
                /\ \A j \in (DOMAIN table) \ {k} : table'[j] = table[j]]_vars

\* A set() has just evicted a row from a table that held two rows, and the
\* surviving old row had been read or written after the clock started.
C2_Witness ==
  /\ cacheLast.op = "set"
  /\ cacheLast.evicted # {}
  /\ Cardinality(DOMAIN table) = 2
  /\ \E j \in (DOMAIN table) \ {cacheLast.key} : table[j].last_accessed_at > 0

\* C9, as stated: when get(k) hits and the next cache call is a set() of a new
\* key that evicts, with at least one other row stored, k is not the row
\* evicted.
C9_AsStated ==
  [][\A k \in Keys :
       (SetStep(k) /\ AtCapacityFor(k)
          /\ cacheLast.op = "get" /\ cacheLast.path = "hit"
          /\ cacheLast.key \in DOMAIN table
          /\ Cardinality(DOMAIN table) >= 2)
       => cacheLast.key \in DOMAIN table']_vars

\* C10: set() on a key that has a row keeps the row's last_accessed_at, and the
\* last_accessed_at of a row that stays in the table changes only in a get()
\* that hits its key.
C10_WritesKeepRecency ==
  [][\A k \in (DOMAIN table) \cap (DOMAIN table') :
       /\ SetStep(k) => table'[k].last_accessed_at = table[k].last_accessed_at
       /\ table'[k].last_accessed_at # table[k].last_accessed_at
            => (GetStep(k) /\ cacheLast'.path = "hit")]_vars

\* A set() has just rewritten a row that was last read before the write.
C10_Witness ==
  /\ cacheLast.op = "set"
  /\ cacheLast.key \in DOMAIN table
  /\ table[cacheLast.key].last_accessed_at < table[cacheLast.key].updated_at

-----------------------------------------------------------------------------
(* Claims about ManifestManager, checked under SpecManifest *)

\* The diff the specification describes, between saved files A and scanned files B.
ExpectedChanged(A, B) ==
  {p \in (DOMAIN A) \cap (DOMAIN B) : A[p].hash # B[p].hash \/ A[p].mtime # B[p].mtime}
ExpectedAdded(A, B) == (DOMAIN B) \ (DOMAIN A)
ExpectedDeleted(A, B) == (DOMAIN A) \ (DOMAIN B)

\* C4, as stated: with a saved manifest A and the files on disk scanned into
\* manifest B, getChangedFiles() (and detectChanges() after generate()) returns
\* changed = the paths in both whose hash or mtime differ, added = the paths
\* only in B, deleted = the paths only in A.
C4_AsStated ==
  [][/\ (MgrGetChangedFiles /\ manifestFile # NoFile) =>
          LET A == JsonParse(manifestFile).files
              B == Scan(disk).files
          IN /\ mgrLast'.result.changed = ExpectedChanged(A, B)
             /\ mgrLast'.result.added = ExpectedAdded(A, B)
             /\ mgrLast'.result.deleted = ExpectedDeleted(A, B)
     /\ (MgrDetectChanges /\ manifestFile # NoFile /\ mgrManifest = Scan(disk)) =>
          LET A == JsonParse(manifestFile).files
              B == mgrManifest.files
          IN /\ mgrLast'.result.changed = ExpectedChanged(A, B)
             /\ mgrLast'.result.added = ExpectedAdded(A, B)
             /\ mgrLast'.result.deleted = ExpectedDeleted(A, B)]_vars


-----------------------------------------------------------------------------
(* Claims about BloomFilter, checked under SpecBloom *)

\* A step in which `filter` stays the same object: add(), mightContain(), save().
SameFilter ==
  /\ filter # JsNull
  /\ filter' # JsNull
  /\ bloomLast'.op \in {"add", "mightContain", "save"}

\* C3: after any sequence of add() calls, mightContain(y) is true for every y
\* that lower-cases to an item that has been added to the filter, and no call
\* on a filter clears a bit that is set.
C3_NoFalseNegatives ==
  /\ [](filter # JsNull =>
          \A x \in bloomAdded : \A y \in BloomItems :
             ToLowerCase(y) = ToLowerCase(x) => MightContain(filter, y))
  /\ [][SameFilter =>
          \A hash \in 0..(filter.size - 1) :
             TestBit(filter.bits, hash) => TestBit(filter'.bits, hash)]_vars

\* "Docker" has been added, mightContain("DOCKER") has just returned true, and
\* the filter still reports some item as definitely absent.
C3_Witness ==
  /\ filter # JsNull
  /\ <<"D", "o", "c", "k", "e", "r">> \in bloomAdded
  /\ bloomLast = BloomCalled("mightContain", <<"D", "O", "C", "K", "E", "R">>, TRUE)
  /\ \E y \in BloomItems : ~MightContain(filter, y)

-----------------------------------------------------------------------------
(* Claims about the session files, checked under SpecSessions *)

\* C5, as stated: convertToLazyFormat() followed by revertToFullFormat() leaves
\* a sessions index whose sessions list is the list the conversion started
\* from: as many sessions, in the same order, with the same fields and values.
C5_AsStated ==
  [][(sessLast.op = "convert" /\ sessLast'.op = "revert" /\ sessionsIndex # NoFile)
       => JsonParse(sessionsIndex').sessions = sessLast.original]_vars

\* search rule of the session benchmark: a topic equal to the query, or a
\* summary that contains it, case-insensitively.
SessionMatches(session, q) ==
  \/ \E i \in DOMAIN session.topics : ToLowerCase(session.topics[i]) = ToLowerCase(q)
  \/ Includes(ToLowerCase(session.summary), ToLowerCase(q))

\* C8, as stated: in the filter buildMemexBloomFilter() has just written from
\* the sessions index, mightContain(q) false means no session of the index
\* matches q.
C8_AsStated ==
  [][BuildMemexBloomFilter =>
       \A q \in Queries :
          ~MightContain(Load(bloomFile'), q) =>
             \A s \in Elements(JsonParse(sessionsIndex).sessions) : ~SessionMatches(s, q)]_vars

-----------------------------------------------------------------------------
(* Claims about Memex.loadIndex, checked under SpecLoader *)

\* loadIndex() is about to miss the persistent cache.
CacheMisses == GetOutcome(table, "index", inst.version, now).result = Miss

\* The representation exists and its decoder accepts it.
Usable(fmt) == indexFiles[fmt] # NoFile /\ Decodes(fmt, indexFiles[fmt])

\* C6, as stated: when loadIndex() goes to the files, a representation that
\* exists but does not decode is passed over and the next one is read; no
\* decode error ends the call; and the call ends with 'index not found'
\* exactly when no representation exists and decodes.
C6_AsStated ==
  [][(LoadIndex /\ CacheMisses) =>
       /\ loadLast'.threw \in {"none", "NotFound"}
       /\ loadLast'.threw = "NotFound" <=> ~\E fmt \in Elements(IndexFormats) : Usable(fmt)
       /\ \A i \in DOMAIN IndexFormats :
            (/\ indexFiles[IndexFormats[i]] # NoFile
             /\ \A j \in 1..(i - 1) : ~Usable(IndexFormats[j]))
            => IndexFormats[i] \in loadLast'.tried]_vars

-----------------------------------------------------------------------------
(* Claims about Memex.search, checked under SpecSearch *)

\* The result the documentation gives for a term the filter rules out.
BloomFilterSkip(query) ==
  [kind |-> "object", query |-> query, results |-> {}, bloom_filter_skip |-> TRUE]

\* C7, as stated: when the persisted bloom filter reports the query as
\* definitely absent, search(query) returns the empty result marked
\* bloom_filter_skip and reads neither the persistent cache nor the index.
C7_AsStated ==
  [][\A q \in Queries :
       (Search(q) /\ memexIndex # JsNull /\ bloomFile # NoFile
          /\ ~MightContain(Load(bloomFile), q))
       => /\ searchLast'.returned = BloomFilterSkip(q)
          /\ searchLast'.read \cap {"index", "cache"} = {}]_vars

-----------------------------------------------------------------------------
(* More claims about PersistentCache, checked under SpecCache *)

\* The row of key k is the only least recently used row of table t.
OnlyLru(t, k) ==
  /\ k \in DOMAIN t
  /\ \A j \in (DOMAIN t) \ {k} : t[k].last_accessed_at < t[j].last_accessed_at

\* The last call was set(k), k's row has not been read since it was inserted,
\* and the table is full.
JustWrittenUnread(k) ==
  /\ cacheLast.op = "set"
  /\ cacheLast.key = k
  /\ k \in DOMAIN table
  /\ k \notin readRows
  /\ Cardinality(DOMAIN table) >= inst.maxEntries

\* The next call can be the insertion of new key j, evicting k.
CanEvict(j, k) == ENABLED (CacheSet(j, "v1", Null) /\ cacheLast'.evicted = {k})

\* C11: a key just written by set() and not read by get() can be the row the
\* very next insertion evicts. Whenever such a key's row is among the least
\* recently used of a full table, the insertion of any new key can evict it;
\* and a set() on the only least recently used row leaves it the only least
\* recently used row, so a write gives no protection.
C11_JustWrittenIsEvictable ==
  /\ [](\A k \in Keys :
          (JustWrittenUnread(k)
             /\ \A j \in DOMAIN table :
                  table[k].last_accessed_at <= table[j].last_accessed_at)
          => \A j \in Keys \ DOMAIN table : CanEvict(j, k))
  /\ [][\A k \in Keys : (SetStep(k) /\ OnlyLru(table, k)) => OnlyLru(table', k)]_vars

\* The last call rewrote a row that was never read, another row was read after
\* it, and the next insertion can only evict the row just written.
C11_Witness ==
  \E k \in Keys :
    /\ JustWrittenUnread(k)
    /\ Cardinality(DOMAIN table) = 2
    /\ OnlyLru(table, k)
    /\ table[k].updated_at = now
    /\ \E j \in Keys \ DOMAIN table : CanEvict(j, k)
    /\ \A j \in Keys \ DOMAIN table : \A e \in (DOMAIN table) \ {k} : ~CanEvict(j, e)

\* C12, as stated: after set(k, v, ttl) with an explicit ttl >= 0, a get(k) at
\* a time less than ttl after the write returns v, and a get(k) at any time
\* ttl or more after the write returns null (k's row not touched in between).
C12_AsStated ==
  [][\A k \in Keys, v \in Values, ttl \in {0, 1} :
       CacheSet(k, v, <<ttl>>) =>
         \A at \in now .. (MaxTime + 1) :
           GetOutcome(table', k, inst.version, at).result =
             (IF at - now < ttl THEN Hit(v) ELSE Miss)]_vars

\* C20: get(key) on a row whose version differs from the instance's version
\* returns what get(key) returns when key has no row, null, and leaves the
\* table without that row and with every other row as it was.
C20_StaleVersionIsAMiss ==
  [][\A k \in DOMAIN table :
       (GetStep(k) /\ table[k].version # inst.version)
       => /\ cacheLast'.result = Miss
          /\ cacheLast'.result = GetOutcome(DeleteRow(table, k), k, inst.version, now).result
          /\ table' = DeleteRow(table, k)]_vars

\* A get() has just found an unexpired row of another version, deleted it and
\* returned null, while another row stayed in the table.
C20_Witness ==
  /\ cacheLast.op = "get"
  /\ cacheLast.path = "version"
  /\ cacheLast.result = Miss
  /\ cacheLast.key \notin DOMAIN table
  /\ DOMAIN table # {}

-----------------------------------------------------------------------------
(* More claims about Memex.loadIndex, checked under SpecLoader *)

\* The indexes of the sources, in the order persistent cache, index.msgpack,
\* index.json.gz, index.json, that exist and decode; <<>> when none does.
FirstSource ==
  IF ~CacheMisses
    THEN <<GetOutcome(table, "index", inst.version, now).result.value>>
    ELSE LET first == {i \in DOMAIN IndexFormats :
                         /\ Usable(IndexFormats[i])
                         /\ \A j \in 1..(i - 1) : ~Usable(IndexFormats[j])}
         IN IF first = {} THEN <<>>
            ELSE LET fmt == IndexFormats[CHOOSE i \in first : TRUE]
                 IN <<Decoded(fmt, indexFiles[fmt])>>

\* C13, as stated: whenever one of the sources exists and decodes,
\* loadIndex() returns, with the index of the first such source in the order
\* persistent cache, index.msgpack, index.json.gz, index.json.
C13_AsStated ==
  [][(LoadIndex /\ FirstSource # <<>>) =>
       /\ loadLast'.threw = "none"
       /\ loadLast'.index = FirstSource[1]
       /\ memexIndex' = FirstSource[1]]_vars

-----------------------------------------------------------------------------
(* Claims about LazyLoader.loadSessionDetails, checked under SpecDetails *)

\* The details decoded from the first of {id}.msgpack, {id}.json that exists
\* and decodes; null when neither does.
FirstDetails(sessionId) ==
  IF sessionId \in DOMAIN detailPacks /\ MsgpackDecodes(detailPacks[sessionId])
    THEN MsgpackDecode(detailPacks[sessionId])
  ELSE IF sessionId \in DOMAIN detailFiles /\ JsonParses(detailFiles[sessionId])
    THEN JsonParse(detailFiles[sessionId])
  ELSE JsNull

\* C14, as stated: loadSessionDetails(project, id) never throws, and returns
\* the details decoded from the first of {id}.msgpack, {id}.json that exists
\* and decodes, or null when neither does.
C14_AsStated ==
  [][\A id \in SessionIds :
       LoadSessionDetails(id) =>
         /\ detailLast'.threw = "none"
         /\ detailLast'.returned = FirstDetails(id)]_vars

-----------------------------------------------------------------------------
(* Claims about MemexPro.loadIndex, checked under SpecPro *)

\* C15, as stated: on a MemexPro that holds no index, whenever index.json.gz
\* or index.json exists and decodes, loadIndex() loads the index: from
\* index.json.gz when that file exists and decodes, and from index.json when
\* index.json.gz is missing or cannot be decoded.
C15_AsStated ==
  [][(ProLoadIndex /\ proIndex = JsNull /\ (Usable("gzip") \/ Usable("json"))) =>
       /\ proLast'.threw = "none"
       /\ proIndex' = (IF Usable("gzip")
                         THEN Decoded("gzip", indexFiles["gzip"])
                         ELSE Decoded("json", indexFiles["json"]))]_vars

-----------------------------------------------------------------------------
(* More claims about ManifestManager *)

\* C16, as stated: after a generate() that fails partway or a save() that is
\* interrupted, .memex-manifest.json is the previous file or the complete new
\* manifest, and this.manifest is the previous manifest or the complete
\* manifest of the files on disk. Checked under SpecManifestFaults.
C16_AsStated ==
  [][(MgrSaveInterrupted \/ \E failing \in (SUBSET Paths) \ {{}} : MgrGenerateFailing(failing)) =>
       /\ manifestFile' \in {manifestFile, JsonStringify(mgrManifest)}
       /\ mgrManifest' \in {mgrManifest, Scan(disk)}]_vars

\* C17, as stated: when stat or read fails for some of the files generate()
\* matched, generate() completes, records each of them as a warning, and its
\* manifest holds the entries of all the other files. Checked under
\* SpecManifestFaults.
C17_AsStated ==
  [][\A failing \in (SUBSET Paths) \ {{}} :
       MgrGenerateFailing(failing) =>
         LET rest == [p \in (DOMAIN disk) \ failing |-> disk[p]]
         IN /\ mgrLast'.result.threw = "none"
            /\ mgrLast'.result.warnings = failing \cap DOMAIN disk
            /\ mgrManifest' # JsNull
            /\ mgrManifest'.files = Scan(rest).files]_vars

\* C18: detectChanges() and getChangedFiles() return is_first_run = true with
\* changed, added and deleted empty when there is no saved manifest, whatever
\* files are on disk, and is_first_run = false when there is one. Checked
\* under SpecManifest.
C18_FirstRunIsEmpty ==
  [][(MgrDetectChanges \/ MgrGetChangedFiles) =>
       IF manifestFile = NoFile
         THEN /\ mgrLast'.result.is_first_run
              /\ mgrLast'.result.changed = {}
              /\ mgrLast'.result.added = {}
              /\ mgrLast'.result.deleted = {}
         ELSE ~mgrLast'.result.is_first_run]_vars

\* getChangedFiles() has just reported a first run with two tracked files on
\* disk.
C18_Witness ==
  /\ mgrLast.op = "getChangedFiles"
  /\ mgrLast.result.is_first_run
  /\ mgrLast.result.added = {}
  /\ manifestFile = NoFile
  /\ DOMAIN disk = Paths

\* C19: needsIndexUpdate() returns true when there is no saved manifest; with
\* a saved manifest it returns true exactly when one of index.json,
\* index.json.gz, index.msgpack that the manifest has an entry for is on disk
\* with a content hash other than the entry's. Checked under SpecIndexUpdate.
C19_TrueIffAnIndexHashDiffers ==
  [][MgrNeedsIndexUpdate =>
       (mgrLast'.result <=>
          \/ manifestFile = NoFile
          \/ \E f \in Elements(IndexArtifacts) \cap DOMAIN disk :
               /\ f \in DOMAIN JsonParse(manifestFile).files
               /\ HashFile(disk[f].content) # JsonParse(manifestFile).files[f].hash)]_vars

\* needsIndexUpdate() has just returned true because index.msgpack changed
\* while index.json is as the saved manifest has it.
C19_Witness ==
  /\ mgrLast.op = "needsIndexUpdate"
  /\ mgrLast.result
  /\ manifestFile # NoFile
  /\ {"index.json", "index.msgpack"} \subseteq DOMAIN disk
  /\ {"index.json", "index.msgpack"} \subseteq DOMAIN JsonParse(manifestFile).files
  /\ HashFile(disk["index.json"].content) = JsonParse(manifestFile).files["index.json"].hash
  /\ HashFile(disk["index.msgpack"].content) # JsonParse(manifestFile).files["index.msgpack"].hash

-----------------------------------------------------------------------------
(* Claims about damaged cache rows, checked under SpecCacheCorrupt *)

\* C21: get(key) on a row whose value msgpack.decode rejects (the row being
\* unexpired and of the instance's version) returns null, deletes that row and
\* no other, and leaves every other row as it was, so that a get() of any
\* other decodable, unexpired row of the instance's version still returns its
\* value.
C21_UndecodableRowIsDropped ==
  [][\A k \in DOMAIN table :
       (CacheGet(k) /\ ~MsgpackDecodes(table[k].value))
       => /\ cacheLast'.result = Miss
          /\ DOMAIN table' = (DOMAIN table) \ {k}
          /\ \A j \in (DOMAIN table) \ {k} :
               /\ table'[j] = table[j]
               /\ (MsgpackDecodes(table[j].value) /\ table[j].expires_at >= now
                     /\ table[j].version = inst.version)
                  => GetOutcome(table', j, inst.version, now).result
                       = Hit(MsgpackDecode(table[j].value))]_vars

\* A get() has just dropped an undecodable row and the other row, which
\* decodes, is still stored.
C21_Witness ==
  /\ cacheLast.op = "get"
  /\ cacheLast.path = "decode"
  /\ cacheLast.result = Miss
  /\ cacheLast.key \notin DOMAIN table
  /\ \E j \in DOMAIN table : MsgpackDecodes(table[j].value)

-----------------------------------------------------------------------------
(* Claims about the loader and an unreachable cache, under SpecLoaderFaults *)

\* C22, as stated: when the cache database cannot be opened, new Memex()
\* still gives a Memex object; and when a cache call fails inside
\* loadIndex(), loadIndex() goes on as after a cache miss: no cache error
\* reaches the caller, and with a file that exists and decodes it returns
\* the index read from the files.
C22_AsStated ==
  [][/\ MemexNewFailing => memexIndex' # NoMemex
     /\ \A call \in {"get", "set"} :
          LoadIndexFailing(call) =>
            /\ loadLast'.threw # "SqliteError"
            /\ (\E fmt \in Elements(IndexFormats) : Usable(fmt))
                 => (loadLast'.threw = "none" /\ memexIndex' # JsNull)]_vars

-----------------------------------------------------------------------------
(* Claims about crashes during cache calls, checked under SpecCacheCrash *)

\* The row of key j in table t, or <<>> when it has none.
RowOf(t, j) == IF j \in DOMAIN t THEN <<t[j]>> ELSE <<>>

\* The statements of `steps` that change the row of key j.
WritesTo(steps, j) ==
  {i \in 1..(Len(steps) - 1) : RowOf(steps[i], j) # RowOf(steps[i + 1], j)}

\* C23: in every get and set each row is changed by at most one statement,
\* and a call that dies partway leaves each row either as it was before the
\* call or as the completed call leaves it.
C23_RowsChangeInOneStatement ==
  /\ [](\A k \in Keys, j \in Keys :
          /\ \A v \in Values : \A steps \in SetSteps(table, k, v, Null) :
               Cardinality(WritesTo(steps, j)) <= 1
          /\ Cardinality(WritesTo(GetSteps(table, k, inst.version, now), j)) <= 1)
  /\ [][\A k \in Keys :
          /\ \A v \in Values :
               CacheSetCrash(k, v, Null) =>
                 \E o \in SetOutcomes(table, k, v, Null) : \A j \in Keys :
                   RowOf(table', j) \in {RowOf(table, j), RowOf(o.table, j)}
          /\ CacheGetCrash(k) =>
               \A j \in Keys :
                 RowOf(table', j) \in {RowOf(table, j),
                                       RowOf(GetOutcome(table, k, inst.version, now).table, j)}]_vars

\* A set() died after its eviction DELETE and before its INSERT: the evicted
\* row is gone, the new key has no row, and the other row is as it was.
C23_Witness ==
  /\ cacheLast.op = "set"
  /\ cacheLast.path = "crash"
  /\ cacheLast.evicted # {}
  /\ cacheLast.key \notin DOMAIN table
  /\ Cardinality(DOMAIN table) = 1

-----------------------------------------------------------------------------
(* Claims about cleanup(), checked under SpecCacheCleanup *)

\* A step that runs cleanup(): the call itself or a construction.
CleanupStep ==
  \/ CacheCleanup
  \/ \E v \in VersionOptions, m \in MaxEntriesArgs : CacheOpen(v, Null, m)

-----------------------------------------------------------------------------
(* Claims about bloom filter serialization, checked under SpecBloomFiles and SpecBloomRoundTrip *)

\* The stored size or hash count is not the one new BloomFilter(expectedItems,
\* falsePositiveRate) computes for the stored expectedItems and rate.
ParameterMismatch(json) ==
  \/ json.size # BloomSize(json.expectedItems)
  \/ json.numHashFunctions # JsonNumber(NumHashFunctions(json.expectedItems))

\* C25, as stated: a load of a file whose stored parameters do not match the
\* loading filter's does not hand back the stored bits under the stored
\* geometry; it yields no filter or one of the configured geometry.
C25_AsStated ==
  [][(BloomLoad /\ bloomFile # NoFile /\ ParameterMismatch(JsonParse(bloomFile)))
       => \/ filter' = JsNull
          \/ /\ filter'.size = BloomSize(filter'.expectedItems)
             /\ filter'.bits # JsonParse(bloomFile).bits]_vars

\* C26: BloomFilter.fromJSON(f.toJSON()) has the size, hash count, item
\* count, expected items, false-positive rate and bits of f, and answers
\* mightContain as f does for every item.
C26_RoundTripRestoresTheFilter ==
  [][BloomRestore =>
       /\ filter'.size = filter.size
       /\ filter'.numHashFunctions = filter.numHashFunctions
       /\ filter'.itemCount = filter.itemCount
       /\ filter'.expectedItems = filter.expectedItems
       /\ filter'.falsePositiveRate = filter.falsePositiveRate
       /\ filter'.bits = filter.bits
       /\ \A y \in BloomItems : MightContain(filter', y) = MightContain(filter, y)]_vars

\* A filter holding two items, which reports one item present and another
\* absent, has just been restored from its own toJSON().
C26_Witness ==
  /\ bloomLast.op = "fromJSON"
  /\ filter.itemCount = 2
  /\ \E y \in BloomItems : MightContain(filter, y)
  /\ \E y \in BloomItems : ~MightContain(filter, y)

-----------------------------------------------------------------------------
(* Claims about MemexPro.search, checked under SpecProSearch *)

\* Whether `word` matches text at position i as a literal string.
LiteralAt(text, i, word) ==
  /\ i + Len(word) - 1 <= Len(text)
  /\ \A j \in 1..Len(word) : word[j] = text[i + j - 1]

\* The occurrences of `word` in text from position i on, read left to right,
\* each one starting after the one before it ends.
RECURSIVE LiteralCount(_, _, _)
LiteralCount(text, word, i) ==
  IF i + Len(word) - 1 > Len(text) THEN 0
  ELSE IF LiteralAt(text, i, word) THEN 1 + LiteralCount(text, word, i + Len(word))
  ELSE LiteralCount(text, word, i + 1)

\* The score of the claim: over the query tokens, the occurrences of the
\* token in the text times the token's length.
RECURSIVE OccurrenceScore(_, _)
OccurrenceScore(text, queryWords) ==
  IF queryWords = <<>> THEN 0
  ELSE LiteralCount(text, Head(queryWords), 1) * Len(Head(queryWords))
         + OccurrenceScore(text, Tail(queryWords))

\* The text a result was matched on.
MatchedText(index, result) ==
  IF result.type = "topic" THEN result.topic ELSE SearchableText(index, result.project)

\* C27, as stated: the array search(query) returns is in non-increasing order
\* of the sum over the query tokens of (occurrences of the token in the
\* matched text x token length), and that sum is each result's relevance.
C27_AsStated ==
  [][\A q \in ProQueries :
       (ProSearch(q) /\ proSearch'.threw = "none") =>
         LET results == proSearch'.results
             score(r) == OccurrenceScore(MatchedText(proIndex, r), QueryWords(q))
         IN /\ \A i \in DOMAIN results : results[i].relevance = score(results[i])
            /\ \A i, j \in DOMAIN results :
                 i < j => score(results[i]) >= score(results[j])]_vars

-----------------------------------------------------------------------------
(* More claims about the session files, checked under SpecSessions *)

\* The fields of the summary tier.
LightFields == {"id", "project", "date", "summary", "topics"}

\* C28, as stated: in a sessions index that is in lazy format, whatever
\* convertToLazyFormat() and saveSession() calls came before, every session
\* entry has only the fields id, project, date, summary and topics.
C28_AsStated ==
  (sessionsIndex # NoFile /\ JsonParses(sessionsIndex) /\ IsLazy(JsonParse(sessionsIndex)))
    => \A i \in DOMAIN JsonParse(sessionsIndex).sessions :
         DOMAIN JsonParse(sessionsIndex).sessions[i] \subseteq LightFields

\* C29, as stated: each sessions/{id}.json that convertToLazyFormat() writes
\* is the record of the session with that id, holds its fields outside the
\* summary tier, and holds none of date, summary and topics.
C29_AsStated ==
  [][(ConvertToLazyFormat /\ sessionsIndex # NoFile) =>
       \A i \in DOMAIN JsonParse(sessionsIndex).sessions :
         LET session == JsonParse(sessionsIndex).sessions[i]
             details == JsonParse(detailFiles'[session.id])
         IN /\ details.id = session.id
            /\ (DOMAIN session) \ LightFields \subseteq DOMAIN details
            /\ (DOMAIN details) \cap {"date", "summary", "topics"} = {}]_vars

\* C30, as stated: after a saveSession() no two sessions of the project's
\* sessions index have the same id.
C30_AsStated ==
  [][(\E s \in Summaries, t \in TopicsArgs, git \in BOOLEAN : SaveSession(s, t, git)) =>
       LET sessions == JsonParse(sessionsIndex').sessions
       IN \A i, j \in DOMAIN sessions : i # j => sessions[i].id # sessions[j].id]_vars

-----------------------------------------------------------------------------
(* Claims about the MessagePack migration tool, checked under SpecMigrate *)

\* The .json files under MEMEX_PATH.
JsonFiles(tree) == [p \in {q \in DOMAIN tree : q.ext = "json"} |-> tree[p]]

\* C31: a migrate or rollback run, dry or live, leaves every .json file in
\* place with the content it had.
C31_JsonFilesAreKept ==
  [][(\E dryRun \in BOOLEAN : Migrate(dryRun) \/ Rollback(dryRun))
       => /\ indexFiles'["json"] = indexFiles["json"]
          /\ indexFiles'["gzip"] = indexFiles["gzip"]
          /\ sessionsIndex' = sessionsIndex
          /\ detailFiles' = detailFiles]_vars

\* A live rollback has just removed MessagePack files while index.json, the
\* sessions index and a session detail file are on disk.
C31_Witness ==
  /\ migrateLast.op = "rollback"
  /\ ~migrateLast.dryRun
  /\ MsgpackFiles(Tree) = {}
  /\ indexFiles["json"] # NoFile
  /\ sessionsIndex # NoFile
  /\ detailFiles # <<>>

\* C40, as stated: whenever a .json file and the .msgpack file beside it both
\* exist and decode, for index.*, sessions-index.* and sessions/{id}.*, they
\* decode to the same value.
C40_AsStated ==
  \A p \in FindJsonFiles(Tree) :
    (Tree[MsgpackPath(p)] # NoFile
       /\ JsonParses(Tree[p]) /\ MsgpackDecodes(Tree[MsgpackPath(p)]))
      => MsgpackDecode(Tree[MsgpackPath(p)]) = JsonParse(Tree[p])

-----------------------------------------------------------------------------
(* Claims about the hot caches, checked under SpecProHot and SpecHot *)

\* C32, as stated: when MemexPro's hot cache holds 10 entries and a new item
\* is added, the entry removed is the one whose last insertion or hit is the
\* oldest.
C32_AsStated ==
  [][(proHotLast' # proHotLast /\ proHotLast'.path = "loaded" /\ Len(proHot) = 10)
       => proHotLast'.evicted = {Head(proHotUsed)}]_vars

\* C33, as stated: the hot cache of a Memex loader holds at most 10 entries.
C33_AsStated == Len(hot) <= 10

-----------------------------------------------------------------------------
(* Claims about the cache's capacity, checked under SpecCacheCleanup *)

\* C34, as stated: when a set() returns, the table holds at most the
\* instance's maxEntries rows, whichever instance wrote the rows before.
C34_AsStated ==
  [][\A k \in Keys, v \in Values, t \in TtlArgs :
       CacheSet(k, v, t) => Cardinality(DOMAIN table') <= inst.maxEntries]_vars

\* A row get() would not serve: expired or of another version.
LogicallyAbsent(row) == Expired(row, now) \/ VersionMismatch(row, inst.version)

\* C38, as stated: a set() that evicts does not delete a row that is
\* unexpired and of the current version while another row of the table is
\* expired or of a stale version.
C38_AsStated ==
  [][\A k \in Keys, v \in Values, t \in TtlArgs :
       CacheSet(k, v, t) =>
         \A e \in cacheLast'.evicted :
           ~LogicallyAbsent(table[e])
             => \A j \in (DOMAIN table) \ {e} : ~LogicallyAbsent(table[j])]_vars

-----------------------------------------------------------------------------
(* Claims about the index after a save, checked under SpecSearch *)

\* C35, as stated: when saveSession() has rewritten index.json, the next
\* loadIndex() of a newly constructed Memex leaves in this.index the content
\* of the rewritten file.
C35_AsStated ==
  [][(LoadIndex /\ memexIndex = JsNull
        /\ sessLast.op = "save" /\ sessLast.result = "saved")
       => memexIndex' = JsonParse(indexFiles["json"])]_vars

-----------------------------------------------------------------------------
(* Claims about the lazy format, checked under SpecSessions *)

\* The session a detail file holds, without the metadata of the lazy format.
SessionData(file) ==
  Without(JsonParse(file), {"_lazy_loaded", "_index_size_bytes", "_full_size_bytes"})

\* C36, as stated: a convertToLazyFormat() that follows a
\* convertToLazyFormat() leaves the sessions index as it is and every detail
\* file with the same session data, so that revertToFullFormat() restores
\* the same full index as before the second run.
C36_AsStated ==
  [][(ConvertToLazyFormat /\ sessLast.op = "convert" /\ sessLast.original # <<>>)
       => /\ sessionsIndex' = sessionsIndex
          /\ \A id \in DOMAIN detailFiles :
               /\ id \in DOMAIN detailFiles'
               /\ SessionData(detailFiles'[id]) = SessionData(detailFiles[id])
          /\ FullIndex(JsonParse(sessionsIndex'), detailFiles')
               = FullIndex(JsonParse(sessionsIndex), detailFiles)]_vars

-----------------------------------------------------------------------------
(* Claims about the check command, checked under SpecManifestCli *)

\* C37, as stated: after `manifest-manager check` on a root that has a saved
\* manifest, .memex-manifest.json holds the manifest of the files scanned in
\* that run and nothing of the manifest it replaces.
C37_AsStated ==
  [][(CliCheck /\ manifestFile # NoFile) => JsonParse(manifestFile') = Scan(disk)]_vars

-----------------------------------------------------------------------------
(* Claims about the bloom filter after a save, checked under SpecSessions *)

\* C39, as stated: after saveSession() has stored a session, the filter
\* BloomFilter.load() returns from .cache/bloom-filter.json, when there is
\* one, answers mightContain with true for the session's id and for each of
\* its topics.
C39_AsStated ==
  [][\A s \in Summaries, t \in TopicsArgs, git \in BOOLEAN :
       (SaveSession(s, t, git) /\ Load(bloomFile') # JsNull) =>
         LET session == NewSession(s, t, git)
             loaded == Load(bloomFile')
         IN /\ MightContain(loaded, session.id)
            /\ \A i \in DOMAIN session.topics : MightContain(loaded, session.topics[i])]_vars

=============================================================================
